---- MODULE Spec2Model ----
(***************************************************************************)
(* Mini variability visualizer: the feature-model graph engine.            *)
(*                                                                         *)
(* Strings are sequences of one-character strings, so that trimming,       *)
(* lower-casing and substring search are computed and not assumed.  The    *)
(* empty sequence stands for every falsy string value of the JavaScript    *)
(* code (null, undefined and ""): the code only ever tests such values     *)
(* with !x, x || y and x && y.                                             *)
(***************************************************************************)
EXTENDS Integers, Sequences, FiniteSets, TLC

VARIABLES model, query, searchHits, svg, ret, graphState, zoomRef, zoom, env, gestures,
          graph, fileName, loads

vars == <<model, query, searchHits, svg, ret, graphState, zoomRef, zoom, env, gestures,
          graph, fileName, loads>>

(***************************************************************************)
(* Bounds of the model.                                                    *)
(***************************************************************************)
MaxFeatures == 3

MaxQueryLen == 3

MaxConstraints == 2

MaxTreeSize == 7

\* The falsy string: null, undefined or "".
Falsy == <<>>

\* Feature ids: unique, non-empty strings.  One id has an upper-case letter.
IdOrder == <<(<<"r">>), (<<"a">>), (<<"B">>), (<<"c">>)>>

Ids == {IdOrder[i] : i \in DOMAIN IdOrder}

\* The ids and the empty sequences of ids, as sets TLC can enumerate.
IdSeqs(n) == {s \in [1..n -> Ids] : \A i, j \in 1..n : s[i] = s[j] => i = j}

Range(s) == {s[i] : i \in DOMAIN s}

(***************************************************************************)
(* buildHierarchy                                                          *)
(***************************************************************************)

\* featureById after the first forEach has visited features[1..n]:
\* featureById[feature.id] = { ...feature, children: [] }.
RECURSIVE IndexFeatures(_, _)
IndexFeatures(features, n) ==
    IF n = 0 THEN <<>>
    ELSE LET prev == IndexFeatures(features, n - 1)
             f    == features[n]
         IN  [k \in DOMAIN prev \cup {f.id} |->
                 IF k = f.id
                 THEN [id |-> f.id, label |-> f.label, parent |-> f.parent,
                       children |-> <<>>]
                 ELSE prev[k]]

\* children.push(child): the mutated push of the second forEach.
PushChildMutant(children, child) == <<child>> \o children

PushChild(children, child) == Append(children, child)

\* The test of the second forEach: feature.parent && featureById[feature.parent].
HasKnownParent(f, featureById) ==
    f.parent # Falsy /\ f.parent \in DOMAIN featureById

\* featureById after the second forEach has visited features[1..n]; a child
\* list holds the ids of the featureById entries pushed to it.
RECURSIVE AttachChildren(_, _, _)
AttachChildren(features, n, featureById) ==
    IF n = 0 THEN featureById
    ELSE LET prev == AttachChildren(features, n - 1, featureById)
             f    == features[n]
         IN  IF HasKnownParent(f, prev)
             THEN [prev EXCEPT ![f.parent].children = PushChild(@, f.id)]
             ELSE prev

\* A mutated find: the last feature without a parent.
FindRootLast(features) ==
    LET hits == {i \in DOMAIN features : features[i].parent = Falsy}
    IN  IF hits = {} THEN 0 ELSE CHOOSE i \in hits : \A j \in hits : j <= i

\* A mutated find: the search starts at the second feature.
FindRootSkipFirst(features) ==
    LET hits == {i \in DOMAIN features : i > 1 /\ features[i].parent = Falsy}
    IN  IF hits = {} THEN 0 ELSE CHOOSE i \in hits : \A j \in hits : i <= j

\* A mutated find: a parent id that names no feature counts as no parent.
FindRootDangling(features) ==
    LET hits == {i \in DOMAIN features :
                    \/ features[i].parent = Falsy
                    \/ \A j \in DOMAIN features : features[j].id # features[i].parent}
    IN  IF hits = {} THEN 0 ELSE CHOOSE i \in hits : \A j \in hits : i <= j

\* A mutated find: the first feature, with a parent or without.
FindRootFirst(features) == IF Len(features) = 0 THEN 0 ELSE 1

\* model.features.find((feature) => !feature.parent): the index of the first
\* feature without a parent, 0 for undefined.
FindRoot(features) ==
    LET hits == {i \in DOMAIN features : features[i].parent = Falsy}
    IN  IF hits = {} THEN 0 ELSE CHOOSE i \in hits : \A j \in hits : i <= j

\* The null returned by buildHierarchy.
NullNode == [isNull |-> TRUE, root |-> Falsy, node |-> <<>>]

\* d3.hierarchy below one datum: the nodes of its subtree, each with its
\* parent node, its children in the datum's child order and its depth.
RECURSIVE HierarchyNodes(_, _, _, _)
HierarchyNodes(featureById, id, parent, depth) ==
    LET kids == featureById[id].children
        self == [k \in {id} |->
                    [data |-> [id |-> id, label |-> featureById[id].label,
                               parent |-> featureById[id].parent],
                     parent |-> parent, children |-> kids, depth |-> depth]]
        RECURSIVE Below(_)
        Below(i) ==
            IF i = 0 THEN self
            ELSE LET acc == Below(i - 1)
                     sub == HierarchyNodes(featureById, kids[i], id, depth + 1)
                 IN  [k \in DOMAIN acc \cup DOMAIN sub |->
                         IF k \in DOMAIN acc THEN acc[k] ELSE sub[k]]
    IN  Below(Len(kids))

\* d3.hierarchy(featureById[rootFeature.id]).
D3Hierarchy(featureById, rootId) ==
    [isNull |-> FALSE, root |-> rootId,
     node |-> HierarchyNodes(featureById, rootId, Falsy, 0)]

\* buildHierarchy(model), on model.features.
BuildHierarchy(features) ==
    LET featureById == AttachChildren(features, Len(features),
                                      IndexFeatures(features, Len(features)))
        rootIndex   == FindRoot(features)
    IN  IF rootIndex = 0 THEN NullNode
        ELSE D3Hierarchy(featureById, features[rootIndex].id)

(***************************************************************************)
(* d3.tree().nodeSize([140, 200]): the tidy-tree layout (Buchheim et al.)  *)
(* as d3-hierarchy computes it.  A working node v has the prelim z, the    *)
(* mod m, the change c, the shift s, the thread t, the ancestor a, the     *)
(* default ancestor A and the sibling number i.  Horizontal positions are  *)
(* held in ZUnit-ths of a sibling separation, lengths on the drawing in    *)
(* SubPx-ths of a pixel, so that every midpoint and every third that the   *)
(* code computes on the trees considered is a whole number.                *)
(***************************************************************************)
ZUnit == 12

SubPx == 6

NodeSizeX == 140

NodeSizeY == 200

\* The parent that treeRoot gives the root: new TreeNode(null, 0).
Dummy == <<"*">>

\* A const binding: Body at the value of e, which is computed once.
Let(e, Body(_)) == CHOOSE out \in {Body(x) : x \in {e}} : TRUE

TParent(h, v) == IF v = h.root THEN Dummy ELSE h.node[v].parent

TChildren(h, v) == IF v = Dummy THEN <<h.root>> ELSE h.node[v].children

\* The sibling number of v: its zero-based place in its parent's children.
SiblingNumber(h, v) ==
    LET sibs == TChildren(h, TParent(h, v))
    IN  (CHOOSE k \in DOMAIN sibs : sibs[k] = v) - 1

\* treeRoot(root): one fresh TreeNode per node, and the dummy parent.
TreeRoot(h) ==
    [v \in DOMAIN h.node \cup {Dummy} |->
        [z |-> 0, m |-> 0, c |-> 0, s |-> 0, t |-> Falsy, a |-> v, A |-> Falsy,
         i |-> IF v = Dummy THEN 0 ELSE SiblingNumber(h, v)]]

\* A mutated separation: 1 between any two nodes.
SeparationOne(h, a, b) == ZUnit

\* defaultSeparation(a, b): 1 between siblings, 2 otherwise.
Separation(h, a, b) == IF TParent(h, a) = TParent(h, b) THEN ZUnit ELSE 2 * ZUnit

NextLeft(h, tn, v) ==
    LET ch == TChildren(h, v) IN IF ch # <<>> THEN ch[1] ELSE tn[v].t

NextRight(h, tn, v) ==
    LET ch == TChildren(h, v) IN IF ch # <<>> THEN ch[Len(ch)] ELSE tn[v].t

\* A mutated moveSubtree: the mod of the moved node is left as it is.
MoveSubtreeNoMod(tn, wm, wp, shift) ==
    LET change == shift \div (tn[wp].i - tn[wm].i)
    IN  [tn EXCEPT ![wp] = [@ EXCEPT !.c = @ - change, !.s = @ + shift,
                                     !.z = @ + shift],
                   ![wm] = [@ EXCEPT !.c = @ + change]]

MoveSubtree(tn, wm, wp, shift) ==
    LET change == shift \div (tn[wp].i - tn[wm].i)
    IN  [tn EXCEPT ![wp] = [@ EXCEPT !.c = @ - change, !.s = @ + shift,
                                     !.z = @ + shift, !.m = @ + shift],
                   ![wm] = [@ EXCEPT !.c = @ + change]]

\* executeShifts(v), from the child numbered k (one-based) down to the first.
RECURSIVE ShiftLoop(_, _, _, _, _)
ShiftLoop(tn, children, k, shift, change) ==
    IF k = 0 THEN tn
    ELSE LET w       == children[k]
             change1 == change + tn[w].c
         IN  ShiftLoop([tn EXCEPT ![w] = [@ EXCEPT !.z = @ + shift, !.m = @ + shift]],
                       children, k - 1, shift + tn[w].s + change1, change1)

ExecuteShifts(h, tn, v) ==
    ShiftLoop(tn, TChildren(h, v), Len(TChildren(h, v)), 0, 0)

NextAncestor(h, tn, vim, v, ancestor) ==
    IF TParent(h, tn[vim].a) = TParent(h, v) THEN tn[vim].a ELSE ancestor

\* The while loop of apportion; st holds vip, vop, vim, vom and the four sums.
RECURSIVE ApportionLoop(_, _, _, _, _)
ApportionLoop(h, v, ancestor, tn, st) ==
    LET vim1 == NextRight(h, tn, st.vim)
        vip1 == NextLeft(h, tn, st.vip)
    IN  IF vim1 = Falsy \/ vip1 = Falsy
        THEN [tn |-> tn, st |-> [st EXCEPT !.vim = vim1, !.vip = vip1]]
        ELSE LET vom1  == NextLeft(h, tn, st.vom)
                 vop1  == NextRight(h, tn, st.vop)
                 tnA   == [tn EXCEPT ![vop1] = [@ EXCEPT !.a = v]]
                 shift == tnA[vim1].z + st.sim - tnA[vip1].z - st.sip
                              + Separation(h, vim1, vip1)
                 tnB   == IF shift > 0
                          THEN MoveSubtree(tnA, NextAncestor(h, tnA, vim1, v, ancestor),
                                           v, shift)
                          ELSE tnA
                 moved == IF shift > 0 THEN shift ELSE 0
             IN  ApportionLoop(h, v, ancestor, tnB,
                     [vip |-> vip1, vop |-> vop1, vim |-> vim1, vom |-> vom1,
                      sim |-> st.sim + tnB[vim1].m,
                      sip |-> st.sip + moved + tnB[vip1].m,
                      som |-> st.som + tnB[vom1].m,
                      sop |-> st.sop + moved + tnB[vop1].m])

\* apportion(v, w, ancestor): the working nodes and the new default ancestor.
Apportion(h, tn, v, w, ancestor) ==
    IF w = Falsy THEN [tn |-> tn, ancestor |-> ancestor]
    ELSE LET first == TChildren(h, TParent(h, v))[1]
             \* The two ifs after the loop, r being what the loop has left.
             Threads(r) ==
                 LET st   == r.st
                     tn1  == IF st.vim # Falsy /\ NextRight(h, r.tn, st.vop) = Falsy
                             THEN [r.tn EXCEPT ![st.vop] =
                                      [@ EXCEPT !.t = st.vim,
                                                !.m = @ + st.sim - st.sop]]
                             ELSE r.tn
                     left == st.vip # Falsy /\ NextLeft(h, tn1, st.vom) = Falsy
                     tn2  == IF left
                             THEN [tn1 EXCEPT ![st.vom] =
                                      [@ EXCEPT !.t = st.vip,
                                                !.m = @ + st.sip - st.som]]
                             ELSE tn1
                 IN  [tn |-> tn2, ancestor |-> IF left THEN v ELSE ancestor]
         IN  Let(ApportionLoop(h, v, ancestor, tn,
                     [vip |-> v, vop |-> v, vim |-> w, vom |-> first,
                      sip |-> tn[v].m, sop |-> tn[v].m,
                      sim |-> tn[w].m, som |-> tn[first].m]),
                 Threads)

\* firstWalk(v).
FirstWalk(h, tn, v) ==
    LET children == TChildren(h, v)
        parent   == TParent(h, v)
        siblings == TChildren(h, parent)
        w        == IF tn[v].i # 0 THEN siblings[tn[v].i] ELSE Falsy
        \* v is set over its children, tnS being the nodes after executeShifts.
        Centre(tnS) ==
            LET midpoint == (tnS[children[1]].z + tnS[children[Len(children)]].z)
                                \div 2
            IN  IF w # Falsy
                THEN [tnS EXCEPT ![v] =
                         [@ EXCEPT !.z = tnS[w].z + Separation(h, v, w),
                                   !.m = tnS[w].z + Separation(h, v, w) - midpoint]]
                ELSE [tnS EXCEPT ![v] = [@ EXCEPT !.z = midpoint]]
        tn1 ==
            IF children # <<>>
            THEN Let(ExecuteShifts(h, tn, v), Centre)
            ELSE IF w # Falsy
                 THEN [tn EXCEPT ![v] = [@ EXCEPT !.z = tn[w].z + Separation(h, v, w)]]
                 ELSE tn
        \* v.parent.A = apportion(v, w, v.parent.A || siblings[0])
        SetDefaultAncestor(r) == [r.tn EXCEPT ![parent] = [@ EXCEPT !.A = r.ancestor]]
        ApportionFrom(t) ==
            Let(Apportion(h, t, v, w,
                          IF t[parent].A # Falsy THEN t[parent].A ELSE siblings[1]),
                SetDefaultAncestor)
    IN  Let(tn1, ApportionFrom)

\* t.eachAfter(firstWalk): the children from left to right, then the node.
RECURSIVE EachAfterFirstWalk(_, _, _)
EachAfterFirstWalk(h, tn, v) ==
    LET kids == TChildren(h, v)
        RECURSIVE Visit(_)
        Visit(k) == IF k = 0 THEN tn
                    ELSE EachAfterFirstWalk(h, Visit(k - 1), kids[k])
        Walk(t) == FirstWalk(h, t, v)
    IN  Let(Visit(Len(kids)), Walk)

\* t.eachBefore(secondWalk) below v, pm being the final mod of v's parent:
\* v._.x = v.z + v.parent.m; v.m += v.parent.m.
RECURSIVE EachBeforeSecondWalk(_, _, _, _)
EachBeforeSecondWalk(h, tn, v, pm) ==
    LET kids == TChildren(h, v)
        self == [k \in {v} |-> tn[v].z + pm]
        RECURSIVE Visit(_)
        Visit(k) ==
            IF k = 0 THEN self
            ELSE LET acc == Visit(k - 1)
                     sub == EachBeforeSecondWalk(h, tn, kids[k], tn[v].m + pm)
                 IN  [n \in DOMAIN acc \cup DOMAIN sub |->
                         IF n \in DOMAIN acc THEN acc[n] ELSE sub[n]]
    IN  Visit(Len(kids))

\* sizeNode: node.x *= dx; node.y = node.depth * dy.
SizeNode(h, v, x) ==
    [x |-> (x * NodeSizeX * SubPx) \div ZUnit, y |-> h.node[v].depth * NodeSizeY * SubPx]

\* treeLayout(rootNode): the position of every node.
TreeLayout(h) ==
    LET SecondWalk(tn) == EachBeforeSecondWalk(h, tn, h.root, 0 - tn[h.root].z)
        Sized(xs)      == [v \in DOMAIN h.node |-> SizeNode(h, v, xs[v])]
    IN  Let(Let(EachAfterFirstWalk(h, TreeRoot(h), h.root), SecondWalk), Sized)

(***************************************************************************)
(* The drawing functions of GraphView.  A selection is a function of the   *)
(* nodes it is bound to; a link is named by its target node.               *)
(***************************************************************************)

\* node.descendants(), as a set: the node and everything below it.
RECURSIVE Descendants(_, _)
Descendants(h, v) ==
    {v} \cup UNION {Descendants(h, h.node[v].children[k]) :
                        k \in DOMAIN h.node[v].children}

\* node.ancestors(), as a set: the node and every parent up to the root.
RECURSIVE Ancestors(_, _)
Ancestors(h, v) ==
    IF h.node[v].parent = Falsy THEN {v}
    ELSE {v} \cup Ancestors(h, h.node[v].parent)

\* rootNode.links(): one link per node other than the root.
Links(h) == {v \in Descendants(h, h.root) : v # h.root}

LinkSource(h, link) == h.node[link].parent

\* drawLinks: every link is drawn with stroke "#bbb".
DrawLinks(h) == [link \in Links(h) |-> "#bbb"]

\* drawNodes: every circle is drawn with stroke "#fff", stroke-width 2.
DrawNodes(h) ==
    [stroke |-> [v \in Descendants(h, h.root) |-> "#fff"],
     width  |-> [v \in Descendants(h, h.root) |-> 2]]

\* nodeById of drawConstraints: the node drawn for a feature id.
NodeById(h) ==
    LET nodes == Descendants(h, h.root)
    IN  [id \in {h.node[v].data.id : v \in nodes} |->
            CHOOSE v \in nodes : h.node[v].data.id = id]

\* constraint.type === "requires" ? "#2196f3" : "#e53935"
ConstraintColor(type) == IF type = "requires" THEN "#2196f3" ELSE "#e53935"

\* constraint.type === "requires" ? "4 3" : "6 4"
ConstraintDash(type) == IF type = "requires" THEN "4 3" ELSE "6 4"

Abs(n) == IF n < 0 THEN 0 - n ELSE n

Max(a, b) == IF a >= b THEN a ELSE b

Min(a, b) == IF a <= b THEN a ELSE b

\* A mutated control magnitude: the smaller of the two.
ControlMagnitudeMin(sy, ty) == Min(80 * SubPx, Abs(sy - ty) \div 3)

\* Math.max(80, Math.abs(sourceNode.y - targetNode.y) / 3)
ControlMagnitude(sy, ty) == Max(80 * SubPx, Abs(sy - ty) \div 3)

\* The three points handed to d3.line().curve(d3.curveBasis).
CurvePoints(s, t) ==
    <<[x |-> s.x, y |-> s.y],
      [x |-> (s.x + t.x) \div 2,
       y |-> (s.y + t.y) \div 2 - ControlMagnitude(s.y, t.y)],
      [x |-> t.x, y |-> t.y]>>

Path(type, points) ==
    [tag |-> "path", d |-> points, fill |-> "none",
     stroke |-> ConstraintColor(type), dash |-> ConstraintDash(type)]

Circle(type, at) ==
    [tag |-> "circle", d |-> <<[x |-> at.x, y |-> at.y]>>,
     fill |-> ConstraintColor(type), stroke |-> "#fff", dash |-> ""]

\* A mutated body of the forEach: both markers stand at the source node.
ConstraintElementsAtSource(constraint, nodeById, pos) ==
    IF constraint.a \notin DOMAIN nodeById \/ constraint.b \notin DOMAIN nodeById
    THEN <<>>
    ELSE LET s == pos[nodeById[constraint.a]]
             t == pos[nodeById[constraint.b]]
         IN  <<Path(constraint.type, CurvePoints(s, t)),
               Circle(constraint.type, s), Circle(constraint.type, s)>>

\* The body of the forEach of drawConstraints: what one constraint appends
\* to the constraint layer.
ConstraintElements(constraint, nodeById, pos) ==
    IF constraint.a \notin DOMAIN nodeById \/ constraint.b \notin DOMAIN nodeById
    THEN <<>>
    ELSE LET s == pos[nodeById[constraint.a]]
             t == pos[nodeById[constraint.b]]
         IN  <<Path(constraint.type, CurvePoints(s, t)),
               Circle(constraint.type, s), Circle(constraint.type, t)>>

\* model.constraints || []
ConstraintsOrEmpty(m) == IF m.hasConstraints THEN m.constraints ELSE <<>>

\* The forEach of drawConstraints over constraints[1..n].
RECURSIVE ConstraintLayer(_, _, _, _)
ConstraintLayer(constraints, n, nodeById, pos) ==
    IF n = 0 THEN <<>>
    ELSE ConstraintLayer(constraints, n - 1, nodeById, pos)
            \o ConstraintElements(constraints[n], nodeById, pos)

\* drawConstraints(treeContainer, model, rootNode).
DrawConstraints(m, h, pos) ==
    ConstraintLayer(ConstraintsOrEmpty(m), Len(ConstraintsOrEmpty(m)), NodeById(h), pos)

\* A mutated relatedNodes: the ancestors of a match are not added.
RelatedNodesNoAncestors(highlightedIds, h) ==
    UNION {Descendants(h, v) :
              v \in {n \in Descendants(h, h.root) :
                        h.node[n].data.id \in Range(highlightedIds)}}

\* relatedNodes of applyHighlights.
RelatedNodes(highlightedIds, h) ==
    UNION {Ancestors(h, v) \cup Descendants(h, v) :
              v \in {n \in Descendants(h, h.root) :
                        h.node[n].data.id \in Range(highlightedIds)}}

\* The strokes that applyHighlights sets once it is past its guard; match
\* is the test highlighted.has(node.data.id).
HighlightStrokes(sel, h, related, match(_)) ==
    [nodeStroke |-> [v \in DOMAIN sel.nodeStroke |->
                        IF match(v) THEN "#e53935"
                        ELSE IF v \in related THEN "#f48fb1" ELSE "#fff"],
     nodeStrokeWidth |-> [v \in DOMAIN sel.nodeStrokeWidth |->
                             IF match(v) THEN 5 ELSE IF v \in related THEN 3 ELSE 2],
     linkStroke |-> [link \in DOMAIN sel.linkStroke |->
                        IF LinkSource(h, link) \in related /\ link \in related
                        THEN "#f48fb1" ELSE "#bbb"]]

\* A mutated applyHighlights: the descendants of a match are not related.
ApplyHighlightsNoDescendants(sel, highlightedIds, h) ==
    IF Len(highlightedIds) = 0 THEN sel
    ELSE LET hit(v) == h.node[v].data.id \in Range(highlightedIds)
         IN  HighlightStrokes(sel, h,
                 UNION {Ancestors(h, v) : v \in {n \in Descendants(h, h.root) : hit(n)}},
                 hit)

\* A mutated applyHighlights: no guard, and an empty list matches every node.
ApplyHighlightsEmptyMatchesAll(sel, highlightedIds, h) ==
    LET hit(v) == \/ Len(highlightedIds) = 0
                  \/ h.node[v].data.id \in Range(highlightedIds)
    IN  HighlightStrokes(sel, h,
            IF Len(highlightedIds) = 0 THEN Descendants(h, h.root)
            ELSE RelatedNodes(highlightedIds, h),
            hit)

\* A mutated applyHighlights: a link is related when either end is.
ApplyHighlightsEitherEnd(sel, highlightedIds, h) ==
    IF Len(highlightedIds) = 0 THEN sel
    ELSE LET hit(v) == h.node[v].data.id \in Range(highlightedIds)
             rel    == RelatedNodes(highlightedIds, h)
             out    == HighlightStrokes(sel, h, rel, hit)
         IN  [out EXCEPT !.linkStroke =
                 [link \in DOMAIN sel.linkStroke |->
                     IF LinkSource(h, link) \in rel \/ link \in rel
                     THEN "#f48fb1" ELSE "#bbb"]]

\* applyHighlights(nodeSelection, linkSelection, highlightedIds, rootNode).
ApplyHighlights(sel, highlightedIds, h) ==
    IF Len(highlightedIds) = 0 THEN sel
    ELSE LET hit(v) == h.node[v].data.id \in Range(highlightedIds)
         IN  HighlightStrokes(sel, h, RelatedNodes(highlightedIds, h), hit)

\* The svg element without children.
EmptySvg ==
    [rootNode |-> NullNode, pos |-> <<>>, nodeStroke |-> <<>>,
     nodeStrokeWidth |-> <<>>, linkStroke |-> <<>>, constraintLayer |-> <<>>]

\* What the effect of GraphView draws for a model with a root.
DrawTree(m, highlights, h) ==
    LET Selections(nodes) ==
            [nodeStroke |-> nodes.stroke, nodeStrokeWidth |-> nodes.width,
             linkStroke |-> DrawLinks(h)]
        Highlighted(sel) == ApplyHighlights(sel, highlights, h)
        Drawn(pos) ==
            LET Svg(sel) ==
                    [rootNode |-> h, pos |-> pos, nodeStroke |-> sel.nodeStroke,
                     nodeStrokeWidth |-> sel.nodeStrokeWidth,
                     linkStroke |-> sel.linkStroke,
                     constraintLayer |-> DrawConstraints(m, h, pos)]
            IN  Let(Let(Let(DrawNodes(h), Selections), Highlighted), Svg)
    IN  Let(TreeLayout(h), Drawn)

\* The content of the svg element after the effect of GraphView has run on
\* the model m and the highlights, old being its content before.
EffectSvg(m, highlights, old) ==
    IF m.isNull \/ Len(m.features) = 0 THEN old
    ELSE LET Draw(h) == IF h.isNull THEN EmptySvg ELSE DrawTree(m, highlights, h)
         IN  Let(BuildHierarchy(m.features), Draw)

(***************************************************************************)
(* The viewport of GraphView.  The numbers of the fit transform and of the *)
(* zoom transforms are JavaScript doubles; they are held here as exact     *)
(* fractions n/d in lowest terms, in pixels of the viewBox, so rounding in *)
(* the last bits of a double is not represented.                           *)
(***************************************************************************)
RECURSIVE GCD(_, _)
GCD(a, b) == IF b = 0 THEN a ELSE GCD(b, a % b)

\* The fraction n/d, d > 0, in lowest terms.
Rat(n, d) ==
    LET Lowest(g) == [n |-> n \div g, d |-> d \div g]
    IN  Let(GCD(Abs(n), d), Lowest)

RInt(i) == [n |-> i, d |-> 1]

RAdd(a, b) == Rat(a.n * b.d + b.n * a.d, a.d * b.d)

RSub(a, b) == Rat(a.n * b.d - b.n * a.d, a.d * b.d)

RMul(a, b) == Rat(a.n * b.n, a.d * b.d)

\* a / b, for b other than 0.
RDiv(a, b) ==
    IF b.n > 0 THEN Rat(a.n * b.d, a.d * b.n) ELSE Rat(0 - a.n * b.d, a.d * (0 - b.n))

RLeq(a, b) == a.n * b.d <= b.n * a.d

\* A mutated Math.min: the larger of the two.
RMinLarger(a, b) == IF RLeq(a, b) THEN b ELSE a

\* Math.min on two numbers.
RMin(a, b) == IF RLeq(a, b) THEN a ELSE b

\* A length of the drawing (held in SubPx-ths of a pixel), in pixels.
Px(n) == Rat(n, SubPx)

\* margin = { top: 100, right: 200, bottom: 200, left: 200 }
MarginTop == 100

MarginRight == 200

MarginBottom == 200

MarginLeft == 200

\* .attr("r", 25)
NodeRadius == 25

\* d3.zoomIdentity
ZoomIdentity == [k |-> RInt(1), x |-> RInt(0), y |-> RInt(0)]

\* transform.translate(x, y)
ZoomTranslate(t, x, y) ==
    [k |-> t.k, x |-> RAdd(t.x, RMul(t.k, x)), y |-> RAdd(t.y, RMul(t.k, y))]

\* transform.scale(k)
ZoomScale(t, k) == [k |-> RMul(t.k, k), x |-> t.x, y |-> t.y]

\* d3.extent over the node positions, in pixels.
MinOf(S) == CHOOSE m \in S : \A n \in S : m <= n

MaxOf(S) == CHOOSE m \in S : \A n \in S : m >= n

Extent(pos) ==
    [x0 |-> MinOf({pos[v].x : v \in DOMAIN pos}), x1 |-> MaxOf({pos[v].x : v \in DOMAIN pos}),
     y0 |-> MinOf({pos[v].y : v \in DOMAIN pos}), y1 |-> MaxOf({pos[v].y : v \in DOMAIN pos})]

\* viewWidth and viewHeight: the extent of the node positions plus margins.
ViewWidth(e) == RAdd(Px(e.x1 - e.x0), RInt(MarginLeft + MarginRight))

ViewHeight(e) == RAdd(Px(e.y1 - e.y0), RInt(MarginTop + MarginBottom))

\* treeContainer.node().getBBox() on the drawn tree: the box of the circles
\* of radius 25, widened by what the browser measures for the labels and
\* the constraint curves (pads, whole pixels on each side).
GetBBox(e, pads) ==
    [x      |-> RSub(Px(e.x0), RInt(NodeRadius + pads.left)),
     y      |-> RSub(Px(e.y0), RInt(NodeRadius + pads.top)),
     width  |-> RAdd(Px(e.x1 - e.x0), RInt(2 * NodeRadius + pads.left + pads.right)),
     height |-> RAdd(Px(e.y1 - e.y0), RInt(2 * NodeRadius + pads.top + pads.bottom))]

\* getBBox() of a container that holds nothing that is rendered.
EmptyBBox == [x |-> RInt(0), y |-> RInt(0), width |-> RInt(0), height |-> RInt(0)]

\* (size - extent * scale) / 2 - origin * scale: the translate that puts the
\* middle of [origin, origin + extent] at size / 2 under the scale.
CentredTranslate(size, origin, extent, scale) ==
    RSub(RDiv(RSub(size, RMul(extent, scale)), RInt(2)), RMul(origin, scale))

\* fitScale: Math.min(viewWidth / width, viewHeight / height) * 0.8
FitScale(viewWidth, viewHeight, bbox) ==
    RMul(RMin(RDiv(viewWidth, bbox.width), RDiv(viewHeight, bbox.height)), Rat(8, 10))

\* initialTransform: d3.zoomIdentity.translate(fitTx, fitTy).scale(fitScale)
FitTransform(viewWidth, viewHeight, bbox) ==
    LET At(fitScale) ==
            ZoomScale(ZoomTranslate(ZoomIdentity,
                          CentredTranslate(viewWidth, bbox.x, bbox.width, fitScale),
                          CentredTranslate(viewHeight, bbox.y, bbox.height, fitScale)),
                      fitScale)
    IN  Let(FitScale(viewWidth, viewHeight, bbox), At)

\* graphStateRef.current before the effect has drawn a tree.
NoGraphState ==
    [live |-> FALSE, viewWidth |-> RInt(0), viewHeight |-> RInt(0),
     bbox |-> EmptyBBox, initialTransform |-> ZoomIdentity]

\* graphStateRef.current as the effect leaves it for the positions pos; bbox
\* is what getBBox() gives for its treeContainer.
GraphState(pos, pads) ==
    LET Of(e) ==
            LET With(bbox) ==
                    [live |-> TRUE, viewWidth |-> ViewWidth(e), viewHeight |-> ViewHeight(e),
                     bbox |-> bbox,
                     initialTransform |-> FitTransform(ViewWidth(e), ViewHeight(e), bbox)]
            IN  Let(GetBBox(e, pads), With)
    IN  Let(Extent(pos), Of)

\* A mutated centeredTransform: centred at the scale of the fit transform.
CenteredTransformAtFit(gs, currentTransform) ==
    ZoomScale(ZoomTranslate(ZoomIdentity,
                  CentredTranslate(gs.viewWidth, gs.bbox.x, gs.bbox.width,
                                   gs.initialTransform.k),
                  CentredTranslate(gs.viewHeight, gs.bbox.y, gs.bbox.height,
                                   gs.initialTransform.k)),
              gs.initialTransform.k)

\* centeredTransform of handleAlignCenter.
CenteredTransform(gs, currentTransform) ==
    ZoomScale(ZoomTranslate(ZoomIdentity,
                  CentredTranslate(gs.viewWidth, gs.bbox.x, gs.bbox.width, currentTransform.k),
                  CentredTranslate(gs.viewHeight, gs.bbox.y, gs.bbox.height,
                                   currentTransform.k)),
              currentTransform.k)

\* A mutated newTranslate: the centre is not taken back through the scale.
KeepCentreNoRescale(center, translate, k, defaultScale) ==
    RSub(center, RMul(RSub(center, translate), defaultScale))

\* center - ((center - translate) / k) * defaultScale
KeepCentre(center, translate, k, defaultScale) ==
    RSub(center, RMul(RDiv(RSub(center, translate), k), defaultScale))

\* newTransform of handleResetZoom, viewportRect being
\* svgElement.getBoundingClientRect().
ResetTransform(gs, currentTransform, viewportRect) ==
    ZoomScale(ZoomTranslate(ZoomIdentity,
                  KeepCentre(Rat(viewportRect.width, 2), currentTransform.x,
                             currentTransform.k, gs.initialTransform.k),
                  KeepCentre(Rat(viewportRect.height, 2), currentTransform.y,
                             currentTransform.k, gs.initialTransform.k)),
              gs.initialTransform.k)

\* d3-zoom: the transform with scale k that keeps the point p where it is.
ScaleAbout(t, factor, p) ==
    [k |-> RMul(t.k, factor),
     x |-> RSub(RInt(p.x), RMul(RSub(RInt(p.x), t.x), factor)),
     y |-> RSub(RInt(p.y), RMul(RSub(RInt(p.y), t.y), factor))]

\* d3-zoom: the transform moved by the way the pointer has gone.
PanBy(t, d) == [k |-> t.k, x |-> RAdd(t.x, RInt(d.x)), y |-> RAdd(t.y, RInt(d.y))]

\* A mutated filter: wheel events pass whatever keys are held.
ZoomFilterAnyWheel(event) ==
    IF event.type = "wheel" THEN TRUE
    ELSE ~event.ctrlKey \/ event.type = "dblclick" \/ event.type = "touchstart"

\* A mutated filter: a touch passes only without Ctrl.
ZoomFilterTouchNoCtrl(event) ==
    IF event.type = "wheel" THEN event.shiftKey = TRUE
    ELSE ~event.ctrlKey \/ event.type = "dblclick"

\* The filter of zoomBehavior, on the event that would start a gesture.
ZoomFilter(event) ==
    IF event.type = "wheel" THEN event.shiftKey = TRUE
    ELSE ~event.ctrlKey \/ event.type = "dblclick" \/ event.type = "touchstart"

(***************************************************************************)
(* searchFeatures                                                          *)
(***************************************************************************)

\* String.prototype.toLowerCase on one character.
LowerChar(c) ==
    CASE c = "A" -> "a"
      [] c = "B" -> "b"
      [] c = "C" -> "c"
      [] c = "R" -> "r"
      [] OTHER   -> c

\* A mutated toLowerCase: the string is left as it is.
ToLowerCaseNone(str) == str

\* String.prototype.toLowerCase.
ToLowerCase(str) == [i \in 1..Len(str) |-> LowerChar(str[i])]

IsSpace(c) == c = " "

\* A mutated trim: only leading white space is removed.
RECURSIVE TrimStartOnly(_)
TrimStartOnly(str) ==
    IF str # <<>> /\ IsSpace(Head(str)) THEN TrimStartOnly(Tail(str)) ELSE str

\* String.prototype.trim: white space is removed from both ends.
RECURSIVE Trim(_)
Trim(str) ==
    IF str = <<>> THEN str
    ELSE IF IsSpace(str[1]) THEN Trim(Tail(str))
    ELSE IF IsSpace(str[Len(str)]) THEN Trim(SubSeq(str, 1, Len(str) - 1))
    ELSE str

\* A mutated includes: q must stand at the start of str.
StartsWith(str, q) ==
    Len(q) <= Len(str) /\ SubSeq(str, 1, Len(q)) = q

\* String.prototype.includes.
Includes(str, q) ==
    \E k \in 0..(Len(str) - Len(q)) : SubSeq(str, k + 1, k + Len(q)) = q

\* f.label || f.id
LabelOrId(f) == IF f.label # Falsy THEN f.label ELSE f.id

\* The filter predicate: (f.label || f.id).toLowerCase().includes(q).
Matches(f, q) == Includes(ToLowerCase(LabelOrId(f)), q)

\* Array.prototype.filter followed by map(f => f.id), over features[1..n].
RECURSIVE FilterIds(_, _, _)
FilterIds(features, n, q) ==
    IF n = 0 THEN <<>>
    ELSE IF Matches(features[n], q)
         THEN Append(FilterIds(features, n - 1, q), features[n].id)
         ELSE FilterIds(features, n - 1, q)

\* The normalised keyword: (keyword || "").trim().toLowerCase().
Normalise(keyword) == ToLowerCase(Trim(keyword))

\* searchFeatures(features, keyword).
SearchFeatures(features, keyword) ==
    LET q == Normalise(keyword)
    IN  IF q = Falsy THEN <<>> ELSE FilterIds(features, Len(features), q)

(***************************************************************************)
(* The inputs.                                                             *)
(***************************************************************************)
Feature(id, label, parent) == [id |-> id, label |-> label, parent |-> parent]

\* Every feature list of at most MaxFeatures features with unique ids, every
\* parent absent or any id (of the list or not), all labels absent.
FeatureLists ==
    UNION {UNION {{[i \in 1..n |-> Feature(s[i], Falsy, p[i])] :
                      p \in [1..n -> Ids \cup {Falsy}]} :
                  s \in IdSeqs(n)} :
           n \in 0..MaxFeatures}

\* The labels: absent, mixed case, and one with an inner space.
Labels == {Falsy, <<"A", "b">>, <<"b", " ", "a">>}

\* Every feature list of at most MaxFeatures features with unique ids, any
\* of the labels and no parent.
LabelledLists ==
    UNION {UNION {{[i \in 1..n |-> Feature(s[i], l[i], Falsy)] :
                      l \in [1..n -> Labels]} :
                  s \in IdSeqs(n)} :
           n \in 0..MaxFeatures}

QueryChars == {"a", "B", " "}

\* Every query of at most MaxQueryLen characters.
Queries == UNION {[1..n -> QueryChars] : n \in 0..MaxQueryLen}

\* The highlight lists: every set of ids, of features of the model or not.
Highlights ==
    {SelectSeq(IdOrder, LAMBDA id : id \in S) : S \in SUBSET Ids}

\* The features of the models that carry constraints: these ids in this
\* order, the first without a parent.
TreeOrder == <<(<<"r">>), (<<"a">>), (<<"B">>)>>

TreeLists ==
    UNION {{[i \in 1..n |-> Feature(TreeOrder[i], Falsy, p[i])] :
               p \in {q \in [1..n -> Ids \cup {Falsy}] : q[1] = Falsy}} :
           n \in 1..Len(TreeOrder)}

\* A constraint between two ids, each a node of the tree or not.
Constraints ==
    [a : Range(TreeOrder), b : Range(TreeOrder), type : {"requires", "excludes"}]

ConstraintLists == UNION {[1..n -> Constraints] : n \in 0..MaxConstraints}

\* The ids of the trees that are only laid out.
ShapeOrder == <<(<<"0">>), (<<"1">>), (<<"2">>), (<<"3">>), (<<"4">>),
                (<<"5">>), (<<"6">>), (<<"7">>), (<<"8">>), (<<"9">>)>>

\* The parents of n features that make a tree rooted at the first: the
\* parent of every other feature is any feature before it.
RECURSIVE ParentVectors(_)
ParentVectors(n) ==
    IF n = 1 THEN {<<0>>}
    ELSE {Append(p, k) : p \in ParentVectors(n - 1), k \in 1..(n - 1)}

\* Every tree of at most MaxTreeSize features, as a feature list: every
\* shape of ordered tree occurs.
ShapeLists ==
    UNION {{[i \in 1..n |-> Feature(ShapeOrder[i], Falsy,
                                    IF i = 1 THEN Falsy ELSE ShapeOrder[p[i]])] :
               p \in ParentVectors(n)} :
           n \in 1..MaxTreeSize}

NoModel == [isNull |-> TRUE, features |-> <<>>, hasConstraints |-> FALSE,
            constraints |-> <<>>]

Model(features) == [isNull |-> FALSE, features |-> features,
                    hasConstraints |-> FALSE, constraints |-> <<>>]

NoCall == [fn |-> "none"]

\* What the browser measures: the pads of getBBox() around the circles, and
\* the size of the svg element on the screen (getBoundingClientRect).
BBoxPads ==
    {[left |-> 0, right |-> 0, top |-> 0, bottom |-> 0],
     [left |-> 50, right |-> 70, top |-> 0, bottom |-> 18]}

ViewportRects == {[width |-> 540, height |-> 500], [width |-> 800, height |-> 600]}

\* A window with short labels, and a larger one with long labels.
Envs ==
    {e \in [pads : BBoxPads, rect : ViewportRects] :
        e.pads.left = 0 <=> e.rect.width = 540}

DefaultEnv ==
    [pads |-> [left |-> 0, right |-> 0, top |-> 0, bottom |-> 0],
     rect |-> [width |-> 800, height |-> 600]]

\* The svg element's zoom state as d3-zoom keeps it: the transform it shows
\* (element.__zoom, the identity when absent) and the target of a running
\* transition, if any.  A transition is taken from its start to its end in
\* one step: the frames in between are not represented.
NoZoom == [shown |-> ZoomIdentity, pending |-> <<>>]

\* GraphView is not mounted, or mounted and its effect has not run.
Unmounted ==
    /\ graphState = NoGraphState
    /\ zoomRef = ZoomIdentity
    /\ zoom = NoZoom

\* The graph of the store: null, or buildGraph(features).
NoGraph == [isNull |-> TRUE, features |-> <<>>]

Graph(features) == [isNull |-> FALSE, features |-> features]

\* The file name that FileUpload displays: null, or the name of a file.
NoFileName == [isNull |-> TRUE, name |-> ""]

FileName(name) == [isNull |-> FALSE, name |-> name]

\* The calls of handleFile that wait for loadJSONFile, in the order in which
\* their files were chosen, the file chosen last, and how many files have
\* been chosen.
NoLoads == [inflight |-> <<>>, chosen |-> <<>>, started |-> 0]

\* Nothing has been uploaded.
NoUpload ==
    /\ graph = NoGraph
    /\ fileName = NoFileName
    /\ loads = NoLoads

\* The effect of GraphView on the model m and the highlights: the svg
\* element is redrawn, the fit transform is stored and a transition to it
\* is started.
GraphViewEffect(m, highlights) ==
    IF m.isNull \/ Len(m.features) = 0
    THEN UNCHANGED <<svg, graphState, zoomRef, zoom>>
    ELSE /\ svg' = EffectSvg(m, highlights, svg)
         /\ IF svg'.rootNode.isNull
            THEN /\ zoomRef' = ZoomIdentity
                 /\ graphState' = [graphState EXCEPT !.bbox = EmptyBBox]
                 /\ UNCHANGED zoom
            ELSE /\ graphState' = GraphState(svg'.pos, env.pads)
                 /\ zoomRef' = graphState'.initialTransform
                 /\ zoom' = [zoom EXCEPT !.pending = <<graphState'.initialTransform>>]

(***************************************************************************)
(* buildHierarchy applied to every feature list.                           *)
(***************************************************************************)
InitBuild ==
    /\ model \in {Model(fs) : fs \in FeatureLists}
    /\ query = Falsy
    /\ searchHits = <<>>
    /\ svg = EmptySvg
    /\ ret = NoCall
    /\ Unmounted
    /\ env = DefaultEnv
    /\ gestures = 0
    /\ NoUpload

CallBuildHierarchy ==
    /\ ret.fn = "none"
    /\ ret' = [fn |-> "buildHierarchy", rootNode |-> BuildHierarchy(model.features)]
    /\ UNCHANGED <<model, query, searchHits, svg, graphState, zoomRef, zoom, env, gestures, graph, fileName, loads>>

NextBuild == CallBuildHierarchy

SpecBuild == InitBuild /\ [][NextBuild]_vars

(***************************************************************************)
(* searchFeatures applied to every labelled feature list and query.        *)
(***************************************************************************)
InitSearch ==
    /\ model \in {Model(fs) : fs \in LabelledLists}
    /\ query \in Queries
    /\ searchHits = <<>>
    /\ svg = EmptySvg
    /\ ret = NoCall
    /\ Unmounted
    /\ env = DefaultEnv
    /\ gestures = 0
    /\ NoUpload

CallSearchFeatures ==
    /\ ret.fn = "none"
    /\ ret' = [fn |-> "searchFeatures", hits |-> SearchFeatures(model.features, query)]
    /\ UNCHANGED <<model, query, searchHits, svg, graphState, zoomRef, zoom, env, gestures, graph, fileName, loads>>

NextSearch == CallSearchFeatures

SpecSearch == InitSearch /\ [][NextSearch]_vars

(***************************************************************************)
(* The effect of GraphView applied to every feature list with every        *)
(* highlight list, and to every tree with every constraint list and with   *)
(* no constraint list.                                                     *)
(***************************************************************************)
InitRender ==
    /\ \/ /\ model \in {Model(fs) : fs \in FeatureLists}
          /\ searchHits \in Highlights
       \/ /\ model \in {Model(fs) : fs \in TreeLists}
                      \cup {[Model(fs) EXCEPT !.hasConstraints = TRUE,
                                              !.constraints = cs] :
                               fs \in TreeLists, cs \in ConstraintLists}
          /\ searchHits = <<>>
    /\ query = Falsy
    /\ svg = EmptySvg
    /\ ret = NoCall
    /\ Unmounted
    /\ env = DefaultEnv
    /\ gestures = 0
    /\ NoUpload

RunGraphViewEffect ==
    /\ ret.fn = "none"
    /\ GraphViewEffect(model, searchHits)
    /\ ret' = [fn |-> "GraphView effect"]
    /\ UNCHANGED <<model, query, searchHits, env, gestures, graph, fileName, loads>>

NextRender == RunGraphViewEffect

SpecRender == InitRender /\ [][NextRender]_vars

(***************************************************************************)
(* The layout step of the effect of GraphView applied to every tree:       *)
(* buildHierarchy, then d3.tree().nodeSize([140, 200]) on its result.      *)
(***************************************************************************)
InitLayout ==
    /\ model \in {Model(fs) : fs \in ShapeLists}
    /\ query = Falsy
    /\ searchHits = <<>>
    /\ svg = EmptySvg
    /\ ret = NoCall
    /\ Unmounted
    /\ env = DefaultEnv
    /\ gestures = 0
    /\ NoUpload

CallTreeLayout ==
    /\ ret.fn = "none"
    /\ ret' = LET Laid(h) ==
                      LET At(pos) == [fn |-> "treeLayout", rootNode |-> h, pos |-> pos]
                      IN  Let(TreeLayout(h), At)
              IN  Let(BuildHierarchy(model.features), Laid)
    /\ UNCHANGED <<model, query, searchHits, svg, graphState, zoomRef, zoom, env, gestures, graph, fileName, loads>>

NextLayout == CallTreeLayout

SpecLayout == InitLayout /\ [][NextLayout]_vars

(***************************************************************************)
(* The viewport of a mounted GraphView: its effect, the gestures that      *)
(* d3-zoom takes on the svg element, and the two buttons.                  *)
(***************************************************************************)
\* At most this many gestures in one behaviour.
MaxGestures == 2

\* The trees that are shown have at most this many features.
MaxViewSize == 3

\* The trees that are shown: of each size the widest (every feature below
\* the root) and the deepest (every feature below the one before it).
ViewLists ==
    {fs \in ShapeLists :
        /\ Len(fs) <= MaxViewSize
        /\ \/ \A i \in 2..Len(fs) : fs[i].parent = fs[1].id
           \/ \A i \in 2..Len(fs) : fs[i].parent = fs[i - 1].id}

\* The highlights the effect is run again with.
ViewHighlights == {<<>>, <<ShapeOrder[1]>>}

\* The keys held during an event.
Modifiers == [shiftKey : BOOLEAN, ctrlKey : BOOLEAN]

ZoomEventOf(type, mods) ==
    [type |-> type, shiftKey |-> mods.shiftKey, ctrlKey |-> mods.ctrlKey]

\* The factors 2^delta of a wheel step or a pinch, the places of the
\* pointer and the ways it goes, in user units of the svg element.
Factors == {Rat(2, 1), Rat(1, 2)}

Pointers == {[x |-> 100, y |-> 50]}

Displacements == {[x |-> 30, y |-> -20]}

InitView ==
    /\ model \in {Model(fs) : fs \in ViewLists}
    /\ query = Falsy
    /\ searchHits = <<>>
    /\ svg = EmptySvg
    /\ ret = NoCall
    /\ Unmounted
    /\ env \in Envs
    /\ gestures = 0
    /\ NoUpload

\* The effect runs on mount, and again whenever the search bar sets the
\* hits: setSearchHits is given a new array for every query, equal to the
\* one before or not.
ViewEffect(hits) ==
    /\ searchHits' = hits
    /\ GraphViewEffect(model, hits)
    /\ ret' = [fn |-> "GraphView effect"]
    /\ UNCHANGED <<model, query, env, gestures, graph, fileName, loads>>

\* A zoom event of d3-zoom with the transform t: the element's transform is
\* t, no transition is left, and the "zoom" listener of the effect stores t.
ZoomEvent(t) ==
    /\ zoom' = [shown |-> t, pending |-> <<>>]
    /\ zoomRef' = t

\* The transforms a gesture can find on the element when it interrupts what
\* is running: the one shown, or as far as the end of the transition.
Interrupted == {zoom.shown} \cup Range(zoom.pending)

\* A gesture starts: the listeners are on the svg element once the effect
\* has drawn a tree.
GestureStart(event) ==
    /\ graphState.live
    /\ gestures < MaxGestures
    /\ gestures' = gestures + 1
    /\ ret' = [fn |-> event.type, event |-> event, accepted |-> ZoomFilter(event)]
    /\ UNCHANGED <<model, query, searchHits, svg, graphState, env, graph, fileName, loads>>

\* One step of the wheel over the svg element.
Wheel(mods, factor, p) ==
    /\ GestureStart(ZoomEventOf("wheel", mods))
    /\ IF ZoomFilter(ZoomEventOf("wheel", mods))
       THEN \E t \in Interrupted : ZoomEvent(ScaleAbout(t, factor, p))
       ELSE UNCHANGED <<zoom, zoomRef>>

\* The mouse is pressed on the svg element, moved by d and released.
MouseDrag(mods, d) ==
    /\ GestureStart(ZoomEventOf("mousedown", mods))
    /\ IF ZoomFilter(ZoomEventOf("mousedown", mods))
       THEN \E t \in Interrupted : ZoomEvent(PanBy(t, d))
       ELSE UNCHANGED <<zoom, zoomRef>>

\* One finger touches the svg element, moves by d and lifts.
TouchDrag(mods, d) ==
    /\ GestureStart(ZoomEventOf("touchstart", mods))
    /\ IF ZoomFilter(ZoomEventOf("touchstart", mods))
       THEN \E t \in Interrupted : ZoomEvent(PanBy(t, d))
       ELSE UNCHANGED <<zoom, zoomRef>>

\* Two fingers touch the svg element around p and move apart or together.
Pinch(mods, factor, p) ==
    /\ GestureStart(ZoomEventOf("touchstart", mods))
    /\ IF ZoomFilter(ZoomEventOf("touchstart", mods))
       THEN \E t \in Interrupted : ZoomEvent(ScaleAbout(t, factor, p))
       ELSE UNCHANGED <<zoom, zoomRef>>

\* A double click on the background of the svg element: d3-zoom starts a
\* transition to twice the scale, or to half of it with Shift.
DblClickBackground(mods, p) ==
    /\ GestureStart(ZoomEventOf("dblclick", mods))
    /\ IF ZoomFilter(ZoomEventOf("dblclick", mods))
       THEN /\ \E t \in Interrupted :
                 zoom' = [shown |-> t,
                          pending |-> <<ScaleAbout(t, IF mods.shiftKey THEN Rat(1, 2)
                                                      ELSE Rat(2, 1), p)>>]
            /\ UNCHANGED zoomRef
       ELSE UNCHANGED <<zoom, zoomRef>>

\* A transition on the svg element reaches its end: its last zoom event.
TransitionEnd ==
    /\ zoom.pending # <<>>
    /\ ZoomEvent(zoom.pending[1])
    /\ ret' = [fn |-> "transition end"]
    /\ UNCHANGED <<model, query, searchHits, svg, graphState, env, gestures, graph, fileName, loads>>

\* The Align Center button.
HandleAlignCenter ==
    /\ ~model.isNull
    /\ IF graphState.live
       THEN /\ zoomRef' = CenteredTransform(graphState, zoomRef)
            /\ zoom' = [zoom EXCEPT !.pending = <<zoomRef'>>]
       ELSE UNCHANGED <<zoom, zoomRef>>
    /\ ret' = [fn |-> "handleAlignCenter"]
    /\ UNCHANGED <<model, query, searchHits, svg, graphState, env, gestures, graph, fileName, loads>>

\* A mutated Reset Zoom button: the fit transform is computed again.
HandleResetZoomRefit ==
    /\ ~model.isNull
    /\ graphState.live
    /\ zoomRef' = ResetTransform(graphState, zoomRef, env.rect)
    /\ zoom' = [zoom EXCEPT !.pending = <<zoomRef'>>]
    /\ graphState' = [graphState EXCEPT !.initialTransform = zoomRef']
    /\ ret' = [fn |-> "handleResetZoom"]
    /\ UNCHANGED <<model, query, searchHits, svg, env, gestures, graph, fileName, loads>>

\* The Reset Zoom button.
HandleResetZoom ==
    /\ ~model.isNull
    /\ IF graphState.live
       THEN /\ zoomRef' = ResetTransform(graphState, zoomRef, env.rect)
            /\ zoom' = [zoom EXCEPT !.pending = <<zoomRef'>>]
       ELSE UNCHANGED <<zoom, zoomRef>>
    /\ ret' = [fn |-> "handleResetZoom"]
    /\ UNCHANGED <<model, query, searchHits, svg, graphState, env, gestures, graph, fileName, loads>>

NextView ==
    \/ \E hits \in ViewHighlights : ViewEffect(hits)
    \/ \E mods \in Modifiers, factor \in Factors, p \in Pointers : Wheel(mods, factor, p)
    \/ \E mods \in Modifiers, d \in Displacements : MouseDrag(mods, d)
    \/ \E mods \in Modifiers, d \in Displacements : TouchDrag(mods, d)
    \/ \E mods \in Modifiers, factor \in Factors, p \in Pointers : Pinch(mods, factor, p)
    \/ \E mods \in Modifiers, p \in Pointers : DblClickBackground(mods, p)
    \/ TransitionEnd
    \/ HandleAlignCenter
    \/ HandleResetZoom

SpecView == InitView /\ [][NextView]_vars

(***************************************************************************)
(* The application: files are chosen and load, the user types a query or   *)
(* picks a feature, presses the buttons of GraphView, and presses Replace. *)
(* Every handler is followed by the effects that React runs for the state  *)
(* it has set: the effect of the search bar recomputes the hits from the   *)
(* query and the features, and the effect of GraphView redraws the svg     *)
(* element for the model and the hits.  FileUpload is always shown, so a   *)
(* file can be chosen while a model is displayed.                          *)
(***************************************************************************)

\* The effect of the search bar: the hits for a query and a feature list.
SearchEffect(features, q) ==
    IF Trim(q) = Falsy THEN <<>> ELSE SearchFeatures(features, q)

\* At most this many files are chosen in one behaviour.
MaxLoads == 2

\* The models a file can hold: a root with two children and a constraint,
\* a chain, a model with no features, and a model in which no feature is
\* parent-less.
LoadableModels ==
    {[Model(<<Feature(TreeOrder[1], Falsy, Falsy),
               Feature(TreeOrder[2], Falsy, TreeOrder[1]),
               Feature(TreeOrder[3], Falsy, TreeOrder[1])>>)
         EXCEPT !.hasConstraints = TRUE,
                !.constraints = <<[a |-> TreeOrder[2], b |-> TreeOrder[3],
                                   type |-> "requires"]>>],
     Model(<<Feature(TreeOrder[1], Falsy, Falsy),
             Feature(TreeOrder[2], Falsy, TreeOrder[1])>>),
     Model(<<>>),
     Model(<<Feature(TreeOrder[1], Falsy, TreeOrder[2]),
             Feature(TreeOrder[2], Falsy, TreeOrder[1])>>)}

\* The name of the file that holds the model m.
NameOf(m) ==
    IF Len(m.features) = 0 THEN "empty.json"
    ELSE IF FindRoot(m.features) = 0 THEN "cycle.json"
    ELSE IF m.hasConstraints THEN "star.json"
    ELSE "chain.json"

\* The files the user can choose: one for each model, a file that
\* loadJSONFile rejects, and a file whose JSON validateModel does not
\* accept.
Files ==
    {[name |-> NameOf(m), rejects |-> FALSE, ok |-> TRUE, json |-> m] :
        m \in LoadableModels}
    \cup {[name |-> "broken.json", rejects |-> TRUE, ok |-> FALSE, json |-> NoModel],
          [name |-> "invalid.json", rejects |-> FALSE, ok |-> FALSE, json |-> NoModel]}

\* The queries typed in the application.
AppQueries == {<<>>, <<"a">>}

Init ==
    /\ model = NoModel
    /\ query = Falsy
    /\ searchHits = <<>>
    /\ svg = EmptySvg
    /\ ret = NoCall
    /\ Unmounted
    /\ env = DefaultEnv
    /\ gestures = 0
    /\ NoUpload

\* onChange and onDrop with a file: handleFile runs up to its await of
\* loadJSONFile(file).
ChooseFile(file) ==
    /\ loads.started < MaxLoads
    /\ loads' = [inflight |-> Append(loads.inflight, file), chosen |-> <<file>>,
                 started |-> loads.started + 1]
    /\ ret' = [fn |-> "handleFile", file |-> file.name]
    /\ UNCHANGED <<model, query, searchHits, svg, graphState, zoomRef, zoom, env,
                   gestures, graph, fileName>>

\* A mutated handleFile: the result of validateModel is not looked at.
AlertForRejectedOnly(file) ==
    IF file.rejects THEN "Failed to load: " ELSE ""

\* The alert of handleFile for a file, "" when it shows none.
AlertFor(file) ==
    IF file.rejects THEN "Failed to load: "
    ELSE IF ~file.ok THEN "Invalid model:\n"
    ELSE ""

\* loadJSONFile settles for the i-th waiting call of handleFile, and the
\* call runs to its end: an alert, or setModel, setGraph and setFileName.
\* The search bar and GraphView are mounted when the model was null.
LoadSettles(i) ==
    /\ i \in DOMAIN loads.inflight
    /\ loads' = [loads EXCEPT !.inflight =
                    SubSeq(loads.inflight, 1, i - 1)
                        \o SubSeq(loads.inflight, i + 1, Len(loads.inflight))]
    /\ ret' = [fn |-> "handleFile settles", file |-> loads.inflight[i].name,
               alert |-> AlertFor(loads.inflight[i])]
    /\ IF AlertFor(loads.inflight[i]) # ""
       THEN UNCHANGED <<model, graph, fileName, searchHits, svg, graphState, zoomRef,
                        zoom>>
       ELSE /\ model' = loads.inflight[i].json
            /\ graph' = Graph(model'.features)
            /\ fileName' = FileName(loads.inflight[i].name)
            /\ searchHits' = SearchEffect(model'.features, query)
            /\ GraphViewEffect(model', searchHits')
    /\ UNCHANGED <<query, env, gestures>>

\* onChange of the search input, and its clear button: setQuery(q).
SetQuery(q) ==
    /\ ~model.isNull
    /\ query' = q
    /\ searchHits' = SearchEffect(model.features, q)
    /\ GraphViewEffect(model, searchHits')
    /\ ret' = [fn |-> "setQuery"]
    /\ UNCHANGED <<model, env, gestures, graph, fileName, loads>>

\* handleClick of the feature list on the feature numbered i.
ClickFeature(i) ==
    /\ ~model.isNull
    /\ i \in DOMAIN model.features
    /\ query' = LabelOrId(model.features[i])
    /\ searchHits' = SearchEffect(model.features, query')
    /\ GraphViewEffect(model, searchHits')
    /\ ret' = [fn |-> "handleClick"]
    /\ UNCHANGED <<model, env, gestures, graph, fileName, loads>>

\* The dblclick handler of drawNodes on the drawn node v.
DblClickNode(v) ==
    /\ ~model.isNull
    /\ v \in DOMAIN svg.nodeStroke
    /\ query' = LabelOrId(svg.rootNode.node[v].data)
    /\ searchHits' = SearchEffect(model.features, query')
    /\ GraphViewEffect(model, searchHits')
    /\ ret' = [fn |-> "dblclick"]
    /\ UNCHANGED <<model, env, gestures, graph, fileName, loads>>

\* A mutated Replace button: setGraph(null) is left out.
ReplaceKeepsGraph ==
    /\ ~fileName.isNull
    /\ fileName' = NoFileName
    /\ model' = NoModel
    /\ svg' = EmptySvg
    /\ graphState' = NoGraphState
    /\ zoomRef' = ZoomIdentity
    /\ zoom' = NoZoom
    /\ ret' = [fn |-> "Replace"]
    /\ UNCHANGED <<query, searchHits, env, gestures, loads, graph>>

\* The Replace button, shown with the file name: setFileName(null),
\* setModel(null), setGraph(null).  The search bar and GraphView are
\* unmounted.
Replace ==
    /\ ~fileName.isNull
    /\ fileName' = NoFileName
    /\ model' = NoModel
    /\ graph' = NoGraph
    /\ svg' = EmptySvg
    /\ graphState' = NoGraphState
    /\ zoomRef' = ZoomIdentity
    /\ zoom' = NoZoom
    /\ ret' = [fn |-> "Replace"]
    /\ UNCHANGED <<query, searchHits, env, gestures, loads>>

Next ==
    \/ \E file \in Files : ChooseFile(file)
    \/ \E i \in 1..MaxLoads : LoadSettles(i)
    \/ \E q \in AppQueries : SetQuery(q)
    \/ \E i \in 1..Len(TreeOrder) : ClickFeature(i)
    \/ \E v \in Ids : DblClickNode(v)
    \/ Replace
    \/ TransitionEnd
    \/ HandleAlignCenter
    \/ HandleResetZoom

Spec == Init /\ [][Next]_vars

(***************************************************************************)
(* pathToRoot, one turn of its while loop at a time.  The locals of the    *)
(* call are held in ret.  A parent map is a function from the ids that are *)
(* keys of the Map to their values, an id or a falsy value.                *)
(***************************************************************************)

\* The ids recorded of path: a path with more ids than this occurs only
\* when the parent links lead back to an id already visited, and of such a
\* path only the first MaxPathLen ids are recorded, and whether the number
\* of the others is even or odd.
MaxPathLen == 4

ParentMaps == UNION {[S -> Ids \cup {Falsy}] : S \in SUBSET Ids}

\* path.push(cur)
PathPush(path, cur) == IF Len(path) < MaxPathLen THEN Append(path, cur) ELSE path

\* The number of pushes that are not recorded, modulo 2, after one more
\* push to path.
Unrecorded(path, n) == IF Len(path) < MaxPathLen THEN n ELSE (n + 1) % 2

\* A mutated return: the path is returned as it was collected.
ReverseNot(s) == s

\* path.reverse()
Reverse(s) == [i \in 1..Len(s) |-> s[Len(s) + 1 - i]]

\* The test of the while loop: cur && parentMap.has(cur).
PathLoopTest(cur, parentMap) == cur # Falsy /\ cur \in DOMAIN parentMap

InitPath ==
    /\ model = NoModel
    /\ query = Falsy
    /\ searchHits = <<>>
    /\ svg = EmptySvg
    /\ ret = NoCall
    /\ Unmounted
    /\ env = DefaultEnv
    /\ gestures = 0
    /\ NoUpload

\* pathToRoot(targetId, parentMap) is called: path = [], cur = targetId.
CallPathToRoot(targetId, parentMap) ==
    /\ ret.fn = "none"
    /\ ret' = [fn |-> "pathToRoot", pc |-> "while", targetId |-> targetId,
               parentMap |-> parentMap, path |-> <<>>, unrecorded |-> 0,
               cur |-> targetId, result |-> <<>>]
    /\ UNCHANGED <<model, query, searchHits, svg, graphState, zoomRef, zoom, env,
                   gestures, graph, fileName, loads>>

\* One turn of the loop: path.push(cur); cur = parentMap.get(cur).
PathToRootLoop ==
    /\ ret.fn = "pathToRoot" /\ ret.pc = "while"
    /\ PathLoopTest(ret.cur, ret.parentMap)
    /\ ret' = [ret EXCEPT !.path = PathPush(ret.path, ret.cur),
                          !.unrecorded = Unrecorded(ret.path, ret.unrecorded),
                          !.cur = ret.parentMap[ret.cur]]
    /\ UNCHANGED <<model, query, searchHits, svg, graphState, zoomRef, zoom, env,
                   gestures, graph, fileName, loads>>

\* The loop is left: if (cur) path.push(cur); return path.reverse().
PathToRootReturn ==
    /\ ret.fn = "pathToRoot" /\ ret.pc = "while"
    /\ ~PathLoopTest(ret.cur, ret.parentMap)
    /\ ret' = [ret EXCEPT !.pc = "done",
                          !.result = Reverse(IF ret.cur # Falsy
                                             THEN PathPush(ret.path, ret.cur)
                                             ELSE ret.path)]
    /\ UNCHANGED <<model, query, searchHits, svg, graphState, zoomRef, zoom, env,
                   gestures, graph, fileName, loads>>

NextPath ==
    \/ \E targetId \in Ids \cup {Falsy}, parentMap \in ParentMaps :
           CallPathToRoot(targetId, parentMap)
    \/ PathToRootLoop
    \/ PathToRootReturn

SpecPath == InitPath /\ [][NextPath]_vars

\* A call that has started keeps running: the loop is synchronous code.
FairSpecPath == SpecPath /\ WF_vars(PathToRootLoop \/ PathToRootReturn)

(***************************************************************************)
(* The child lists that buildHierarchy of GraphView and buildHierarchy of  *)
(* the feature list fill, before anything walks them, and the rows that    *)
(* the feature list renders from them.                                     *)
(***************************************************************************)

\* features.filter((f) => !f.parent).map((f) => map[f.id]): the ids of the
\* map entries returned by buildHierarchy of the feature list.
SidebarRoots(features) ==
    LET ids == [i \in DOMAIN features |-> features[i].id]
    IN  SelectSeq(ids, LAMBDA id :
            \E i \in DOMAIN features : features[i].id = id /\ features[i].parent = Falsy)

\* renderTree(nodes, depth): the rows rendered, from top to bottom, each
\* with the id of its feature and its depth.
RECURSIVE RenderTree(_, _, _)
RenderTree(map, nodes, depth) ==
    IF nodes = <<>> THEN <<>>
    ELSE <<[id |-> Head(nodes), depth |-> depth]>>
         \o (IF Len(map[Head(nodes)].children) > 0
             THEN RenderTree(map, map[Head(nodes)].children, depth + 1)
             ELSE <<>>)
         \o RenderTree(map, Tail(nodes), depth)

InitChildren ==
    /\ model \in {Model(fs) : fs \in FeatureLists}
    /\ query = Falsy
    /\ searchHits = <<>>
    /\ svg = EmptySvg
    /\ ret = NoCall
    /\ Unmounted
    /\ env = DefaultEnv
    /\ gestures = 0
    /\ NoUpload

\* buildHierarchy of GraphView up to its find: featureById with the child
\* lists filled, and the index of rootFeature.
FillChildren ==
    /\ ret.fn = "none"
    /\ ret' = [fn |-> "buildHierarchy children",
               featureById |-> AttachChildren(model.features, Len(model.features),
                                   IndexFeatures(model.features, Len(model.features))),
               rootIndex |-> FindRoot(model.features)]
    /\ UNCHANGED <<model, query, searchHits, svg, graphState, zoomRef, zoom, env,
                   gestures, graph, fileName, loads>>

\* The feature list renders: roots = buildHierarchy(model.features) and
\* renderTree(roots).
RenderFeatureList ==
    /\ ret.fn = "none"
    /\ LET map == AttachChildren(model.features, Len(model.features),
                      IndexFeatures(model.features, Len(model.features)))
           roots == SidebarRoots(model.features)
       IN  ret' = [fn |-> "FeatureList", featureById |-> map, roots |-> roots,
                   rows |-> RenderTree(map, roots, 0)]
    /\ UNCHANGED <<model, query, searchHits, svg, graphState, zoomRef, zoom, env,
                   gestures, graph, fileName, loads>>

NextChildren == FillChildren \/ RenderFeatureList

SpecChildren == InitChildren /\ [][NextChildren]_vars

(***************************************************************************)
(* The parent links of a feature list, read upwards from a feature.        *)
(***************************************************************************)
FeatureIds(features) == {features[i].id : i \in DOMAIN features}

IndexOf(features, id) == CHOOSE i \in DOMAIN features : features[i].id = id

\* The declared parent of the feature id; Falsy for none and for an id that
\* is no feature of the list.
DeclaredParent(features, id) ==
    IF id \in FeatureIds(features) THEN features[IndexOf(features, id)].parent
    ELSE Falsy

\* The id found k parent links above id.
RECURSIVE Up(_, _, _)
Up(features, id, k) ==
    IF k = 0 THEN id ELSE DeclaredParent(features, Up(features, id, k - 1))

\* The ids on the parent chain of id, id included.
Chain(features, id) == {Up(features, id, k) : k \in 0..Len(features)} \ {Falsy}

NoParentCycle(features) ==
    \A id \in FeatureIds(features) :
        \A k \in 1..Len(features) : Up(features, id, k) # id

Parentless(features) == {i \in DOMAIN features : features[i].parent = Falsy}

\* The features whose declared parent names no feature of the list.
Dangling(features) ==
    {i \in DOMAIN features :
        /\ features[i].parent # Falsy
        /\ features[i].parent \notin FeatureIds(features)}

Built == ret.fn = "buildHierarchy"

TreeIds(rootNode) == DOMAIN rootNode.node

(***************************************************************************)
(* C1: for a feature list with unique ids, no parent cycle and a feature   *)
(* without a parent, buildHierarchy returns a tree rooted at the first     *)
(* parent-less feature in input order; its nodes are exactly the features  *)
(* whose parent chain reaches that root, so a feature below a second       *)
(* parent-less feature or below a dangling parent is not in the tree.      *)
(***************************************************************************)
C1_TreeIsReachableFromFirstRoot ==
    (Built /\ NoParentCycle(model.features) /\ Parentless(model.features) # {})
    => LET fs   == model.features
           tree == ret.rootNode
           r    == CHOOSE i \in Parentless(fs) : \A j \in Parentless(fs) : i <= j
       IN  /\ ~tree.isNull
           /\ tree.root = fs[r].id
           /\ TreeIds(tree) = {id \in FeatureIds(fs) : fs[r].id \in Chain(fs, id)}
           /\ \A i \in DOMAIN fs :
                 (\E j \in (Parentless(fs) \ {r}) \cup Dangling(fs) :
                      fs[j].id \in Chain(fs, fs[i].id))
                 => fs[i].id \notin TreeIds(tree)

\* A tree of two nodes was built while a second parent-less feature, which
\* stands between the two in the list, was left out.
C1_Witness ==
    /\ Built
    /\ NoParentCycle(model.features)
    /\ ~ret.rootNode.isNull
    /\ Cardinality(TreeIds(ret.rootNode)) = 2
    /\ Parentless(model.features) = {1, 2}

(***************************************************************************)
(* C2: buildHierarchy returns null exactly when the feature list is empty  *)
(* or holds no feature without a parent (for instance when every feature   *)
(* lies on a parent cycle); otherwise it returns a tree.                   *)
(***************************************************************************)
C2_NullIffNoRootCandidate ==
    Built =>
        (ret.rootNode.isNull <=>
            (model.features = <<>> \/ Parentless(model.features) = {}))

\* null was returned for a non-empty list in which every feature lies on a
\* parent cycle.
C2_Witness ==
    /\ Built
    /\ ret.rootNode.isNull
    /\ Len(model.features) >= 2
    /\ \A i \in DOMAIN model.features :
          \E k \in 1..Len(model.features) :
              Up(model.features, model.features[i].id, k) = model.features[i].id

(***************************************************************************)
(* C3, as the specification states it: a feature whose declared parent     *)
(* names no feature is a root candidate like a feature without a parent;   *)
(* the first root candidate in input order is the root of the tree.        *)
(***************************************************************************)
C3_DanglingIsRootCandidate ==
    Built =>
        LET fs    == model.features
            cands == Parentless(fs) \cup Dangling(fs)
        IN  IF cands = {} THEN ret.rootNode.isNull
            ELSE /\ ~ret.rootNode.isNull
                 /\ ret.rootNode.root =
                        fs[CHOOSE i \in cands : \A j \in cands : i <= j].id

(***************************************************************************)
(* C3, amended: a feature whose declared parent names no feature is never  *)
(* a root candidate.  It is never the root and it is left out of the tree  *)
(* with everything below it, wherever it stands in the list; when no       *)
(* feature is without a parent the result is null even if such a feature   *)
(* exists.                                                                 *)
(***************************************************************************)
C3_DanglingIsAlwaysOmitted ==
    Built =>
        LET fs == model.features
        IN  /\ \A i \in Dangling(fs) :
                  /\ ret.rootNode.root # fs[i].id
                  /\ \A id \in FeatureIds(fs) :
                        fs[i].id \in Chain(fs, id) => id \notin TreeIds(ret.rootNode)
            /\ (Parentless(fs) = {} /\ Dangling(fs) # {}) => ret.rootNode.isNull

\* A feature with a dangling parent stands first in the list and has a
\* child; the tree is rooted at a later feature without a parent.
C3_Witness ==
    /\ Built
    /\ ~ret.rootNode.isNull
    /\ 1 \in Dangling(model.features)
    /\ \E i \in DOMAIN model.features :
          model.features[i].parent = model.features[1].id
    /\ ret.rootNode.root # model.features[1].id

(***************************************************************************)
(* C4: in the tree, the children of every node stand in the relative order *)
(* in which their features stand in the input list.                        *)
(***************************************************************************)
C4_ChildrenInInputOrder ==
    (Built /\ ~ret.rootNode.isNull) =>
        \A id \in TreeIds(ret.rootNode) :
            LET kids == ret.rootNode.node[id].children
            IN  \A i, j \in DOMAIN kids :
                    i < j => IndexOf(model.features, kids[i])
                                < IndexOf(model.features, kids[j])

\* The root has two children and stands after them in the list.
C4_Witness ==
    /\ Built
    /\ ~ret.rootNode.isNull
    /\ Len(ret.rootNode.node[ret.rootNode.root].children) = 2
    /\ IndexOf(model.features, ret.rootNode.root) = 3

(***************************************************************************)
(* C5: searchFeatures returns, in input order, exactly the ids of the      *)
(* features whose lower-cased label (the lower-cased id when the label is  *)
(* empty or absent) contains the trimmed, lower-cased query; an empty list *)
(* or a query that is empty after trimming gives the empty list.           *)
(***************************************************************************)
Searched == ret.fn = "searchFeatures"

\* t is str without its leading and trailing white space.
IsTrimOf(t, str) ==
    /\ \E k \in 0..Len(str) :
          /\ k + Len(t) <= Len(str)
          /\ SubSeq(str, k + 1, k + Len(t)) = t
          /\ \A i \in 1..Len(str) : (i <= k \/ i > k + Len(t)) => str[i] = " "
    /\ t # <<>> => (t[1] # " " /\ t[Len(t)] # " ")

\* needle occurs in hay, whatever the case of the letters of either.
ContainsIgnoringCase(hay, needle) ==
    \E k \in 0..(Len(hay) - Len(needle)) :
        \A i \in 1..Len(needle) : LowerChar(hay[k + i]) = LowerChar(needle[i])

C5_SearchFeatures ==
    Searched =>
        LET fs   == model.features
            hits == ret.hits
            t    == CHOOSE t \in Queries : IsTrimOf(t, query)
            hit(f) == ContainsIgnoringCase(IF f.label = <<>> THEN f.id ELSE f.label, t)
        IN  /\ (t = <<>> \/ fs = <<>>) => hits = <<>>
            /\ t # <<>> =>
                  /\ Range(hits) = {fs[i].id : i \in {j \in DOMAIN fs : hit(fs[j])}}
                  /\ \A i, j \in DOMAIN hits :
                        i < j => IndexOf(fs, hits[i]) < IndexOf(fs, hits[j])

\* A padded upper-case query matched two of three features, one by its
\* label and one by its id.
C5_Witness ==
    /\ Searched
    /\ Len(model.features) = 3
    /\ Len(ret.hits) = 2
    /\ query = <<" ", "B", " ">>
    /\ \E i \in DOMAIN model.features :
          model.features[i].label = Falsy /\ model.features[i].id \in Range(ret.hits)
    /\ \E i \in DOMAIN model.features :
          model.features[i].label # Falsy /\ model.features[i].id \in Range(ret.hits)

(***************************************************************************)
(* The highlight closure, read off the feature list: the matched ids that  *)
(* are nodes of the tree, with everything above and below them.            *)
(***************************************************************************)
Rendered == ret.fn = "GraphView effect"

TreeDrawn == Rendered /\ ~svg.rootNode.isNull

ClosureOf(features, tree, matched) ==
    UNION {Chain(features, m) \cup {id \in FeatureIds(features) : m \in Chain(features, id)} :
              m \in matched \cap TreeIds(tree)}

\* The nodes drawn as highlighted or related.
ShownClosure == {v \in DOMAIN svg.nodeStroke : svg.nodeStroke[v] # "#fff"}

(***************************************************************************)
(* C6: the highlight closure computed by applyHighlights is exactly the    *)
(* union, over the matched ids that are nodes of the tree, of the node,    *)
(* its ancestors up to the root and its descendants down to the leaves;    *)
(* matched ids that are not in the tree add nothing.                       *)
(***************************************************************************)
C6_ClosureIsAncestorsAndDescendants ==
    TreeDrawn =>
        LET want == ClosureOf(model.features, svg.rootNode, Range(searchHits))
        IN  /\ RelatedNodes(searchHits, svg.rootNode) = want
            /\ ShownClosure = want

\* In a chain of three the middle feature was matched, together with an id
\* that is no feature: all three nodes are in the closure.
C6_Witness ==
    /\ TreeDrawn
    /\ Len(searchHits) = 2
    /\ \E i \in DOMAIN searchHits : searchHits[i] \notin TreeIds(svg.rootNode)
    /\ \E i \in DOMAIN searchHits :
          /\ searchHits[i] \in TreeIds(svg.rootNode)
          /\ svg.rootNode.node[searchHits[i]].depth = 1
          /\ svg.rootNode.node[searchHits[i]].children # <<>>
    /\ Cardinality(ShownClosure) = 3

(***************************************************************************)
(* C7: with no matched id the closure is empty and applyHighlights changes *)
(* nothing: every node and every link keeps the stroke it was drawn with.  *)
(***************************************************************************)
C7_EmptyHighlightsChangeNothing ==
    (TreeDrawn /\ searchHits = <<>>) =>
        /\ ShownClosure = {}
        /\ \A v \in TreeIds(svg.rootNode) :
              svg.nodeStroke[v] = "#fff" /\ svg.nodeStrokeWidth[v] = 2
        /\ \A link \in TreeIds(svg.rootNode) \ {svg.rootNode.root} :
              svg.linkStroke[link] = "#bbb"

\* A tree with two links was drawn with no matched id.
C7_Witness ==
    /\ TreeDrawn
    /\ searchHits = <<>>
    /\ Cardinality(DOMAIN svg.linkStroke) = 2

(***************************************************************************)
(* C8: a tree edge is drawn as related exactly when its parent end and its *)
(* child end are both in the highlight closure; every other edge keeps the *)
(* default stroke.                                                         *)
(***************************************************************************)
C8_LinkRelatedIffBothEnds ==
    TreeDrawn =>
        LET want == ClosureOf(model.features, svg.rootNode, Range(searchHits))
        IN  \A link \in TreeIds(svg.rootNode) \ {svg.rootNode.root} :
                LET parent == DeclaredParent(model.features, link)
                IN  svg.linkStroke[link] =
                        IF parent \in want /\ link \in want THEN "#f48fb1" ELSE "#bbb"

\* One child of the root was matched: its edge is related, the edge to the
\* other child, whose parent end alone is in the closure, is not.
C8_Witness ==
    /\ TreeDrawn
    /\ Len(searchHits) = 1
    /\ \E k, l \in DOMAIN svg.linkStroke :
          /\ svg.linkStroke[k] = "#f48fb1"
          /\ svg.linkStroke[l] = "#bbb"
          /\ svg.rootNode.node[l].parent \in ShownClosure

(***************************************************************************)
(* C9: drawConstraints emits, in the order of the constraint list, one     *)
(* curve and two endpoint markers for every constraint whose two endpoint  *)
(* ids are nodes of the tree; the curve and both markers show the kind of  *)
(* the constraint and the markers stand at the two endpoint nodes.  A      *)
(* constraint with an endpoint that is no node of the tree, and a model    *)
(* without a constraint list, emit nothing and the drawing completes.      *)
(***************************************************************************)
\* The kind a colour stands for in the legend.
KindShown(color) ==
    CASE color = "#2196f3" -> "requires"
      [] color = "#e53935" -> "excludes"
      [] OTHER             -> "none"

\* The constraints of the model that have both endpoints in the tree, as
\* their places in the constraint list in increasing order.
RECURSIVE Ascending(_)
Ascending(S) ==
    IF S = {} THEN <<>>
    ELSE LET top == CHOOSE i \in S : \A j \in S : j <= i
         IN  Append(Ascending(S \ {top}), top)

C9_OneCurveTwoMarkersPerResolvedConstraint ==
    TreeDrawn =>
        LET cs    == IF model.hasConstraints THEN model.constraints ELSE <<>>
            nodes == TreeIds(svg.rootNode)
            drawn == Ascending({i \in DOMAIN cs : cs[i].a \in nodes /\ cs[i].b \in nodes})
            layer == svg.constraintLayer
        IN  /\ Len(layer) = 3 * Len(drawn)
            /\ \A k \in DOMAIN drawn :
                  LET c      == cs[drawn[k]]
                      curve  == layer[3 * k - 2]
                      first  == layer[3 * k - 1]
                      second == layer[3 * k]
                  IN  /\ curve.tag = "path"
                      /\ KindShown(curve.stroke) = c.type
                      /\ curve.d[1] = svg.pos[c.a]
                      /\ curve.d[3] = svg.pos[c.b]
                      /\ first.tag = "circle" /\ second.tag = "circle"
                      /\ KindShown(first.fill) = c.type
                      /\ KindShown(second.fill) = c.type
                      /\ first.d = <<svg.pos[c.a]>>
                      /\ second.d = <<svg.pos[c.b]>>

\* Of two constraints the first has an endpoint that is a feature but no
\* node of the tree and is skipped; the second, between two different
\* nodes, is drawn.
C9_Witness ==
    /\ TreeDrawn
    /\ model.hasConstraints
    /\ Len(model.constraints) = 2
    /\ model.constraints[1].b \in FeatureIds(model.features) \ TreeIds(svg.rootNode)
    /\ model.constraints[2].a # model.constraints[2].b
    /\ Len(svg.constraintLayer) = 3

\* A model without a constraint list was drawn.
C9_WitnessNoList ==
    TreeDrawn /\ ~model.hasConstraints /\ svg.constraintLayer = <<>>

(***************************************************************************)
(* C10.  For a drawn curve from s to t with middle control point p, twice  *)
(* the displacement of p from the midpoint of s and t is                   *)
(* (2 p.x - s.x - t.x, 2 p.y - s.y - t.y), so no half is ever taken.       *)
(***************************************************************************)
Curves == {k \in DOMAIN svg.constraintLayer : svg.constraintLayer[k].tag = "path"}

OffX2(d) == 2 * d[2].x - d[1].x - d[3].x

OffY2(d) == 2 * d[2].y - d[1].y - d[3].y

\* Three times max(80, |dy| / 3).
Magnitude3(d) == Max(3 * 80 * SubPx, Abs(d[1].y - d[3].y))

PerpendicularToChord(d) ==
    OffX2(d) * (d[3].x - d[1].x) + OffY2(d) * (d[3].y - d[1].y) = 0

(***************************************************************************)
(* C10, as the specification states it: the middle control point is the    *)
(* midpoint of the endpoints displaced perpendicular to the chord between  *)
(* them, by max(80, |dy| / 3).                                             *)
(***************************************************************************)
C10_DisplacedPerpendicularToChord ==
    TreeDrawn =>
        \A k \in Curves :
            LET d == svg.constraintLayer[k].d
            IN  /\ PerpendicularToChord(d)
                /\ 9 * (OffX2(d) * OffX2(d) + OffY2(d) * OffY2(d))
                      = 4 * Magnitude3(d) * Magnitude3(d)

(***************************************************************************)
(* C10, amended: the middle control point is the midpoint of the endpoints *)
(* displaced vertically, towards smaller y, by max(80, |dy| / 3); the      *)
(* displacement is perpendicular to the chord exactly when the endpoints   *)
(* have the same y.                                                        *)
(***************************************************************************)
C10_DisplacedVertically ==
    TreeDrawn =>
        \A k \in Curves :
            LET d == svg.constraintLayer[k].d
            IN  /\ OffX2(d) = 0
                /\ 3 * OffY2(d) = 0 - 2 * Magnitude3(d)
                /\ PerpendicularToChord(d) <=> d[1].y = d[3].y

\* A curve was drawn between the root and its grandchild, two levels and
\* 400 pixels apart, where |dy| / 3 exceeds 80.
C10_Witness ==
    /\ TreeDrawn
    /\ \E k \in Curves :
          LET d == svg.constraintLayer[k].d
          IN  /\ Abs(d[1].y - d[3].y) = 2 * NodeSizeY * SubPx
              /\ Magnitude3(d) > 3 * 80 * SubPx

(***************************************************************************)
(* The layout claims speak of the tree that treeLayout has positioned.     *)
(***************************************************************************)
LaidOut == ret.fn = "treeLayout"

LaidNodes == DOMAIN ret.rootNode.node

PosX(v) == ret.pos[v].x

PosY(v) == ret.pos[v].y

DepthOf(v) == ret.rootNode.node[v].depth

ChildrenOf(v) == ret.rootNode.node[v].children

SubtreeOf(v) == Descendants(ret.rootNode, v)

\* u and w are children of one node, u before w.
SiblingBefore(u, w) ==
    /\ u # ret.rootNode.root
    /\ w # ret.rootNode.root
    /\ ret.rootNode.node[u].parent = ret.rootNode.node[w].parent
    /\ \E i, j \in DOMAIN ChildrenOf(ret.rootNode.node[u].parent) :
          /\ i < j
          /\ ChildrenOf(ret.rootNode.node[u].parent)[i] = u
          /\ ChildrenOf(ret.rootNode.node[u].parent)[j] = w

\* The smallest and the largest x of the subtree of v.
SubtreeMinX(v) ==
    CHOOSE m \in {PosX(d) : d \in SubtreeOf(v)} : \A d \in SubtreeOf(v) : m <= PosX(d)

SubtreeMaxX(v) ==
    CHOOSE m \in {PosX(d) : d \in SubtreeOf(v)} : \A d \in SubtreeOf(v) : m >= PosX(d)

\* nodeSpacing.x, in the unit of the positions.
SpacingX == NodeSizeX * SubPx

(***************************************************************************)
(* C11, as the specification states it: after layout any two siblings have *)
(* x-coordinates at least 140 apart, and the horizontal extents of         *)
(* distinct sibling subtrees (the intervals from the smallest to the       *)
(* largest x of each subtree) do not overlap.                              *)
(***************************************************************************)
C11_SiblingExtentsDisjoint ==
    LaidOut =>
        \A u, w \in LaidNodes :
            SiblingBefore(u, w) =>
                /\ Abs(PosX(u) - PosX(w)) >= SpacingX
                /\ \/ SubtreeMaxX(u) < SubtreeMinX(w)
                   \/ SubtreeMaxX(w) < SubtreeMinX(u)

(***************************************************************************)
(* C11, amended: after layout a later sibling lies at least 140 to the     *)
(* right of every earlier sibling, any two nodes of the same depth are at  *)
(* least 140 apart, and sibling subtrees do not overlap depth by depth:    *)
(* of two nodes of the same depth below an earlier and a later sibling,    *)
(* the one below the later sibling lies at least 280 to the right.         *)
(***************************************************************************)
C11_SubtreesDisjointAtEveryDepth ==
    LaidOut =>
        /\ \A u, w \in LaidNodes :
              (u # w /\ DepthOf(u) = DepthOf(w)) => Abs(PosX(u) - PosX(w)) >= SpacingX
        /\ \A u, w \in LaidNodes :
              SiblingBefore(u, w) =>
                  /\ PosX(w) - PosX(u) >= SpacingX
                  /\ \A du \in SubtreeOf(u) \ {u}, dw \in SubtreeOf(w) \ {w} :
                        DepthOf(du) = DepthOf(dw) => PosX(dw) - PosX(du) >= 2 * SpacingX

\* A tree was laid out in which the subtree of a node spreads beyond the x
\* of its next sibling.
C11_Witness ==
    /\ LaidOut
    /\ \E u, w \in LaidNodes :
          SiblingBefore(u, w) /\ SubtreeMaxX(u) > SubtreeMinX(w)

\* A tree was laid out in which two cousins stand 280 apart.
C11_WitnessCousins ==
    /\ LaidOut
    /\ \E u, w \in LaidNodes :
          /\ SiblingBefore(u, w)
          /\ \E du \in SubtreeOf(u) \ {u}, dw \in SubtreeOf(w) \ {w} :
                DepthOf(du) = DepthOf(dw) /\ PosX(dw) - PosX(du) = 2 * SpacingX

(***************************************************************************)
(* C12.  After layout every node with children stands at the midpoint of   *)
(* its first and its last child, every node has y = depth * 200, and the   *)
(* two leaf children of a root with exactly two children stand at the same *)
(* distance to the left and to the right of the root, at depth 1.          *)
(***************************************************************************)
C12_ParentCentredAndDepthRows ==
    LaidOut =>
        /\ \A v \in LaidNodes :
              /\ ChildrenOf(v) # <<>> =>
                    2 * PosX(v) = PosX(ChildrenOf(v)[1])
                                    + PosX(ChildrenOf(v)[Len(ChildrenOf(v))])
              /\ PosY(v) = DepthOf(v) * NodeSizeY * SubPx
        /\ LET kids == ChildrenOf(ret.rootNode.root)
           IN  (Len(kids) = 2 /\ Cardinality(LaidNodes) = 3) =>
                   /\ PosX(ret.rootNode.root) - PosX(kids[1])
                         = PosX(kids[2]) - PosX(ret.rootNode.root)
                   /\ PosX(kids[1]) < PosX(ret.rootNode.root)
                   /\ PosY(kids[1]) = NodeSizeY * SubPx
                   /\ PosY(kids[2]) = NodeSizeY * SubPx

\* A tree was laid out in which a node with children was moved to the right
\* by apportion: it has an earlier sibling whose children reach below it.
C12_Witness ==
    /\ LaidOut
    /\ \E u, w \in LaidNodes :
          /\ SiblingBefore(u, w)
          /\ Len(ChildrenOf(u)) >= 2
          /\ Len(ChildrenOf(w)) >= 2
          /\ PosX(w) - PosX(u) > SpacingX

\* A root with exactly two leaf children was laid out.
C12_WitnessTwoLeaves ==
    /\ LaidOut
    /\ Cardinality(LaidNodes) = 3
    /\ Len(ChildrenOf(ret.rootNode.root)) = 2

(***************************************************************************)
(* The viewport.                                                           *)
(***************************************************************************)
\* The effect has just drawn a tree.
Fitted == ret.fn = "GraphView effect" /\ graphState.live /\ ~svg.rootNode.isNull

Half(r) == RDiv(r, RInt(2))

\* Where the transform t shows the middle of the box, in x and in y.
ShownCentreX(t, box) == RAdd(t.x, RMul(t.k, RAdd(box.x, Half(box.width))))

ShownCentreY(t, box) == RAdd(t.y, RMul(t.k, RAdd(box.y, Half(box.height))))

\* k is 0.8 times the smaller of viewWidth / width and viewHeight / height.
IsFitScale(k, viewWidth, viewHeight, box) ==
    /\ RLeq(RMul(k, box.width), RMul(Rat(4, 5), viewWidth))
    /\ RLeq(RMul(k, box.height), RMul(Rat(4, 5), viewHeight))
    /\ \/ RMul(k, box.width) = RMul(Rat(4, 5), viewWidth)
       \/ RMul(k, box.height) = RMul(Rat(4, 5), viewHeight)

\* C13: after every run of the effect that lays a tree out, the view size
\* is the extent of the node positions plus the margins (200 + 200 across,
\* 100 + 200 down), the fit transform has the scale 0.8 * min(viewWidth /
\* width, viewHeight / height) of the bounding box of the content, it shows
\* the middle of that box at the middle of the view, and it is the
\* transform the viewport is sent to.
C13_FitToView ==
    Fitted =>
        LET xs == {svg.pos[v].x : v \in DOMAIN svg.pos}
            ys == {svg.pos[v].y : v \in DOMAIN svg.pos}
            gs == graphState
        IN  /\ \E x0 \in xs, x1 \in xs :
                  /\ \A x \in xs : x0 <= x /\ x <= x1
                  /\ gs.viewWidth = Rat(x1 - x0 + 400 * SubPx, SubPx)
            /\ \E y0 \in ys, y1 \in ys :
                  /\ \A y \in ys : y0 <= y /\ y <= y1
                  /\ gs.viewHeight = Rat(y1 - y0 + 300 * SubPx, SubPx)
            /\ IsFitScale(gs.initialTransform.k, gs.viewWidth, gs.viewHeight, gs.bbox)
            /\ ShownCentreX(gs.initialTransform, gs.bbox) = Half(gs.viewWidth)
            /\ ShownCentreY(gs.initialTransform, gs.bbox) = Half(gs.viewHeight)
            /\ zoomRef = gs.initialTransform
            /\ zoom.pending = <<gs.initialTransform>>

\* A tree is fitted whose width decides the scale, off the centre of its
\* node positions.
C13_Witness ==
    /\ Fitted
    /\ Cardinality(DOMAIN svg.pos) > 1
    /\ RMul(graphState.initialTransform.k, graphState.bbox.width)
           = RMul(Rat(4, 5), graphState.viewWidth)
    /\ RMul(graphState.initialTransform.k, graphState.bbox.height)
           # RMul(Rat(4, 5), graphState.viewHeight)
    /\ env.pads.left # env.pads.right

\* A tree is fitted whose height decides the scale.
C13_WitnessHeight ==
    /\ Fitted
    /\ RMul(graphState.initialTransform.k, graphState.bbox.width)
           # RMul(Rat(4, 5), graphState.viewWidth)
    /\ RMul(graphState.initialTransform.k, graphState.bbox.height)
           = RMul(Rat(4, 5), graphState.viewHeight)

\* C14: a single-node tree is fitted with the scale 1, by a fallback that
\* keeps the fit-scale computation from dividing by the zero extent of its
\* box.  The effect has no such fallback: the box of a drawn node is that of
\* its circle of radius 25 and its label, and the scale is 0.8 times the
\* smaller of 400 / width and 300 / height of that box.
C14_SingleNodeFitScaleIsOne ==
    (Fitted /\ Cardinality(DOMAIN svg.pos) = 1) =>
        graphState.initialTransform.k = RInt(1)

\* The content coordinate that a transform of scale k and the translate
\* shows at the coordinate c of the view.
ContentAt(translate, k, c) == RDiv(RSub(c, translate), k)

C16_ResetZoomKeepsViewportCentre ==
    [][(ret'.fn = "handleResetZoom" /\ graphState.live) =>
          /\ zoomRef'.k = graphState.initialTransform.k
          /\ ContentAt(zoomRef'.x, zoomRef'.k, Half(graphState.viewWidth))
                 = ContentAt(zoomRef.x, zoomRef.k, Half(graphState.viewWidth))
          /\ ContentAt(zoomRef'.y, zoomRef'.k, Half(graphState.viewHeight))
                 = ContentAt(zoomRef.y, zoomRef.k, Half(graphState.viewHeight))]_vars

Applied == ret'.accepted /\ zoomRef' = zoom'.shown /\ zoom'.pending = <<>>

\* C18: a wheel event without Shift, with or without Ctrl, leaves the scale
\* and the translate as they are (what is shown, what is stored and the
\* running transition); a wheel event with Shift is accepted and scales
\* what the element shows by the factor of the wheel step.
C18_WheelZoomsOnlyWithShift ==
    [][ret'.fn = "wheel" =>
          IF ret'.event.shiftKey
          THEN /\ Applied
               /\ \E t \in Interrupted, f \in Factors : zoomRef'.k = RMul(t.k, f)
          ELSE /\ ~ret'.accepted
               /\ UNCHANGED <<zoom, zoomRef>>]_vars

\* A wheel event with Ctrl and without Shift has been ignored on a fitted
\* tree.
C18_Witness ==
    /\ ret.fn = "wheel"
    /\ ~ret.event.shiftKey
    /\ ret.event.ctrlKey
    /\ ~ret.accepted
    /\ zoomRef = graphState.initialTransform

\* A wheel event with Shift has changed the scale.
C18_WitnessShift ==
    /\ ret.fn = "wheel"
    /\ ret.event.shiftKey
    /\ ret.accepted
    /\ zoomRef.k # graphState.initialTransform.k
    /\ gestures = 1

\* The transform t is one the element could show, moved by one of the ways
\* of the pointer or scaled by one of the factors.
PannedOrPinched(t) ==
    \E from \in Interrupted :
        \/ \E d \in Displacements :
               /\ t.k = from.k
               /\ t.x = RAdd(from.x, RInt(d.x))
               /\ t.y = RAdd(from.y, RInt(d.y))
        \/ \E f \in Factors : t.k = RMul(from.k, f)

C19_WitnessCtrlDrag ==
    /\ ret.fn = "mousedown"
    /\ ret.event.ctrlKey
    /\ ~ret.accepted
    /\ zoomRef = graphState.initialTransform

\* The gestures of d3-zoom, the end of a transition and the two buttons.
ViewportHandlers ==
    {"wheel", "mousedown", "touchstart", "dblclick", "transition end",
     "handleAlignCenter", "handleResetZoom"}

\* C20: a pan, a zoom, handleAlignCenter and handleResetZoom change nothing
\* but the viewport transform (what is stored, what is shown, the running
\* transition): the model, the query, the search hits, the drawn tree with
\* its hierarchy and positions, and the view size, content box and fit
\* transform of the last layout stay as they are.
C20_HandlersChangeOnlyTheTransform ==
    [][ret'.fn \in ViewportHandlers =>
          UNCHANGED <<model, query, searchHits, svg, graphState>>]_vars

\* The buttons and gestures have left the viewport away from the fit
\* transform of a drawn tree.
C20_Witness ==
    /\ ret.fn \in {"handleAlignCenter", "handleResetZoom"}
    /\ gestures > 0
    /\ ~svg.rootNode.isNull
    /\ zoomRef # graphState.initialTransform
    /\ zoom.shown # graphState.initialTransform

(***************************************************************************)
(* The lifetime of what is derived from a model.                           *)
(***************************************************************************)
\* The transform the svg element comes to show: the target of its
\* transition, or what it shows when none is running.
Destination(z) == IF z.pending = <<>> THEN z.shown ELSE z.pending[1]

\* C21: while the model stays the same, a run of the effect of GraphView
\* for new search hits (a change of the query or of the highlight set
\* alone) leaves the transform that is stored and the one the element
\* comes to show as the gestures and the buttons left them.  The effect has the highlights
\* among its dependencies and ends by storing the fit transform and
\* starting a transition to it.
C21_HighlightChangeKeepsTransform ==
    [][(ret'.fn = "GraphView effect" /\ graphState.live /\ model' = model) =>
          /\ zoomRef' = zoomRef
          /\ Destination(zoom') = Destination(zoom)]_vars

\* C22: whenever a model is shown, the tree drawn in the svg element is the
\* hierarchy of that model, and the view size, bounding box and fit
\* transform that alignCenter and resetZoom read, when present, are those
\* computed from its drawing: nothing derived from a model shown before is
\* left, also when the model shown has no features or no root.
C22_DerivedStateIsOfShownModel ==
    ~model.isNull =>
        /\ svg.rootNode = BuildHierarchy(model.features)
        /\ graphState.live =>
              /\ ~svg.rootNode.isNull
              /\ graphState = GraphState(svg.pos, env.pads)

\* C23: a press of the Replace button sets the model, the graph and the
\* displayed file name to null in one step.
C23_ReplaceClearsModelGraphAndFileName ==
    [][ret'.fn = "Replace" =>
          /\ model' = NoModel
          /\ graph' = NoGraph
          /\ fileName' = NoFileName]_vars

\* Replace has been pressed while a model with its graph was shown.
C23_Witness ==
    /\ ret.fn = "Replace"
    /\ loads.started > 0
    /\ model.isNull /\ graph.isNull /\ fileName.isNull

\* The names of the files that loadJSONFile rejects or validateModel does
\* not accept.
FailingFileNames == {f.name : f \in {g \in Files : g.rejects \/ ~g.ok}}

C24_WitnessInvalid ==
    /\ ret.fn = "handleFile settles"
    /\ ret.alert = "Invalid model:\n"
    /\ ~model.isNull /\ ~graph.isNull /\ ~fileName.isNull

\* The store and FileUpload show the file: its JSON as the model, the graph
\* built from it, and its name.
Shows(m, g, fn, file) ==
    /\ m = file.json
    /\ g = Graph(file.json.features)
    /\ fn = FileName(file.name)

\* C29: when two calls of handleFile wait for their files together, the
\* model, the graph and the displayed file name after both have ended are
\* those of the file chosen last: a load that ends after the one of the
\* file chosen last leaves them as that one set them.
C29_LastChosenFileWins ==
    [][(/\ ret'.fn = "handleFile settles"
        /\ loads'.inflight = <<>>
        /\ loads.chosen # <<>>
        /\ Shows(model, graph, fileName, loads.chosen[1]))
          => Shows(model', graph', fileName', loads.chosen[1])]_vars

(***************************************************************************)
(* pathToRoot.                                                             *)
(***************************************************************************)

\* parentMap.get(id), falsy when id is no key.
MappedParent(parentMap, id) ==
    IF id \in DOMAIN parentMap THEN parentMap[id] ELSE Falsy

\* The value found k links above id in the parent map.
RECURSIVE UpMap(_, _, _)
UpMap(parentMap, id, k) ==
    IF k = 0 THEN id ELSE MappedParent(parentMap, UpMap(parentMap, id, k - 1))

\* No id is found again above itself.
AcyclicMap(parentMap) ==
    \A id \in Ids : \A k \in 1..Cardinality(Ids) : UpMap(parentMap, id, k) # id

Returned == ret.fn = "pathToRoot" /\ ret.pc = "done"

\* C25: for a parent map without a cycle and a target id, the sequence
\* that pathToRoot returns has no id twice, ends with the target, starts
\* with an id that has no mapped parent, and each of its ids is the mapped
\* parent of the id that follows it.
C25_PathFromRootAncestorToTarget ==
    (Returned /\ AcyclicMap(ret.parentMap) /\ ret.targetId # Falsy) =>
        LET path == ret.result
        IN  /\ Len(path) >= 1
            /\ path[Len(path)] = ret.targetId
            /\ MappedParent(ret.parentMap, path[1]) = Falsy
            /\ \A i \in 1..(Len(path) - 1) :
                  MappedParent(ret.parentMap, path[i + 1]) = path[i]
            /\ \A i, j \in DOMAIN path : path[i] = path[j] => i = j

\* A path of three ids was returned for a map without a cycle.
C25_Witness ==
    /\ Returned
    /\ AcyclicMap(ret.parentMap)
    /\ Len(ret.result) = 3
    /\ ret.result[3] = ret.targetId

\* C26: every call of pathToRoot returns, also for a parent map in which
\* the parent links from the target lead back to an id already visited.
C26_PathToRootTerminates ==
    (ret.fn = "pathToRoot") ~> Returned

(***************************************************************************)
(* Parent cycles next to a root.                                           *)
(***************************************************************************)

\* The ids found from the ids S by at most k steps along the child lists.
RECURSIVE ReachIn(_, _, _)
ReachIn(featureById, S, k) ==
    IF k = 0 THEN S
    ELSE ReachIn(featureById,
                 S \cup UNION {Range(featureById[v].children) : v \in S}, k - 1)

\* The ids that a walk along the child lists from the ids S visits.
Reach(featureById, S) == ReachIn(featureById, S, Cardinality(DOMAIN featureById))

\* The id is found again below itself.
BelowItself(featureById, v) ==
    v \in Reach(featureById, Range(featureById[v].children))

\* The feature id lies on a cycle of declared parents.
OnParentCycle(features, id) ==
    \E k \in 1..Len(features) : Up(features, id, k) = id

\* The ids from which the walks start: the root that buildHierarchy of
\* GraphView hands to d3.hierarchy, or the roots of the feature list.
WalkStarts ==
    IF ret.fn = "FeatureList" THEN Range(ret.roots)
    ELSE IF ret.rootIndex = 0 THEN {}
    ELSE {model.features[ret.rootIndex].id}

ChildrenFilled == ret.fn \in {"buildHierarchy children", "FeatureList"}

\* C27: for every feature list with unique ids, also one with a parent
\* cycle or a self-parent next to a parent-less feature, no feature that a
\* walk along the child lists from a returned root visits lies on a parent
\* cycle or is found again below itself, so every such walk is finite; the
\* feature list renders each feature it visits in one row.
C27_NoCycleBelowARoot ==
    ChildrenFilled =>
        /\ \A v \in Reach(ret.featureById, WalkStarts) :
              /\ ~OnParentCycle(model.features, v)
              /\ ~BelowItself(ret.featureById, v)
        /\ ret.fn = "FeatureList" =>
              /\ {ret.rows[i].id : i \in DOMAIN ret.rows}
                    = Reach(ret.featureById, WalkStarts)
              /\ \A i, j \in DOMAIN ret.rows : ret.rows[i].id = ret.rows[j].id => i = j

\* The feature list has rendered its rows for a parent-less feature next
\* to two features that are each other's parent.
C27_Witness ==
    /\ ret.fn = "FeatureList"
    /\ \E i \in DOMAIN model.features :
          /\ OnParentCycle(model.features, model.features[i].id)
          /\ model.features[i].parent # model.features[i].id
    /\ Len(ret.rows) >= 1

\* The child lists of GraphView were filled for a root with a child next
\* to a feature that is its own parent.
C27_WitnessSelfParent ==
    /\ ret.fn = "buildHierarchy children"
    /\ ret.rootIndex # 0
    /\ Cardinality(Reach(ret.featureById, WalkStarts)) = 2
    /\ \E i \in DOMAIN model.features :
          model.features[i].parent = model.features[i].id

(***************************************************************************)
(* The shape of the highlight closure.                                     *)
(***************************************************************************)

\* The links drawn as related, each named by its child end.
RelatedLinks == {link \in DOMAIN svg.linkStroke : svg.linkStroke[link] = "#f48fb1"}

\* C28: a highlight closure that is not empty contains the root of the
\* tree and, with each of its nodes other than the root, the parent of
\* that node; the links drawn as related are the links from the closure
\* nodes to their parents, so that the related nodes and links are one
\* connected subtree that contains the root.
C28_ClosureIsSubtreeWithRoot ==
    (TreeDrawn /\ ShownClosure # {}) =>
        /\ svg.rootNode.root \in ShownClosure
        /\ \A v \in ShownClosure \ {svg.rootNode.root} :
              svg.rootNode.node[v].parent \in ShownClosure
        /\ RelatedLinks = ShownClosure \ {svg.rootNode.root}

\* A child of the root was matched: the root is in the closure as a node
\* that is related and not matched, and another node is outside of it.
C28_Witness ==
    /\ TreeDrawn
    /\ svg.nodeStroke[svg.rootNode.root] = "#f48fb1"
    /\ \E v \in ShownClosure :
          /\ svg.rootNode.node[v].depth = 1
          /\ svg.nodeStroke[v] = "#e53935"
    /\ ShownClosure # TreeIds(svg.rootNode)

============================================================================
